---------------------------- MODULE Spec2Model ----------------------------
(***************************************************************************)
(* A model of the commands of src/src: the grid trader of                  *)
(* advanced/grid.py (class GridTradingBot), the OCO pair of                *)
(* advanced/oco.py, the TWAP run of advanced/twap.py and the placers of    *)
(* market_orders.py, limit_orders.py and advanced/stop_limit.py, each run  *)
(* as a script through its main().  run_grid uses timedelta, which only    *)
(* the script's "from datetime import timedelta" (grid.py:413) provides.   *)
(* One command runs at a time: in the specifications of one command the    *)
(* state of the others stays as it starts.                                 *)
(*                                                                         *)
(* Numbers.  The source computes prices with Python floats (IEEE-754       *)
(* binary64: 53 significant bits, every operation rounded to nearest,      *)
(* ties to even).  The model keeps that arithmetic and shortens the        *)
(* significand to Precision bits: a price is an integer count of           *)
(* 2^-FracBits price units, and every float operation of the source is     *)
(* the exact result rounded by Fl to Precision significant bits.           *)
(*                                                                         *)
(* Steps.  A Gateway call (ticker, create, get, cancel) either returns or  *)
(* raises; one step of the model is one loop iteration or one call of the  *)
(* source, with the bookkeeping that follows it.  The venue fills orders   *)
(* and the user presses Ctrl+C on their own.                               *)
(*                                                                         *)
(* Spec is the grid run, SpecLive the run under the fairness of a          *)
(* sequential program, SpecLevels the level computation of __init__ on a   *)
(* wider set of inputs.  SpecOco is the OCO command with its monitor       *)
(* thread, SpecOcoLive and SpecOcoCaller the same under fairness,          *)
(* SpecOcoPrices place_oco_order on a wider set of prices.  SpecTwap is    *)
(* the TWAP command, SpecTwapPlan its validation and schedule on a wider   *)
(* set of inputs, SpecTwapLong runs of seven orders, SpecPlace the         *)
(* placers, SpecValidators the validators of utils.py on their own, and    *)
(* SpecCommands any one of the commands.                                   *)
(***************************************************************************)
EXTENDS Integers, Sequences, FiniteSets

(***************************************************************************)
(* Bounds of the model.                                                    *)
(***************************************************************************)
\* significant bits of a float (binary64 has 53)
Precision == 10
\* a price is counted in units of 2^-FracBits
FracBits == 9
\* a TWAP quantity is counted in units of 2^-QtyFracBits: fine enough for
\* the floats around the 0.001 of the quantity checks to keep Precision bits
QtyFracBits == 19
\* the venue accepts at most this many orders in one run; later placements
\* are rejected, as any placement may be
MaxOrders == 4
\* run duration, counted in supervision cycles (duration_minutes * 2)
Duration == 10

Unit == 2 ^ FracBits
QUnit == 2 ^ QtyFracBits

(***************************************************************************)
(* Float arithmetic.                                                       *)
(***************************************************************************)
RECURSIVE Ulp(_)
\* the spacing of the floats around n >= 0 (1 below 2^Precision: the
\* subnormal range of the format)
Ulp(n) == IF n < 2 ^ Precision THEN 1 ELSE 2 * Ulp(n \div 2)

\* a / b rounded to the nearest integer, ties to even (a >= 0, b > 0)
RoundHalfEven(a, b) ==
    LET q == a \div b
        r == a % b
    IN  IF 2 * r > b \/ (2 * r = b /\ q % 2 = 1) THEN q + 1 ELSE q

\* the float nearest to the rational a / b
Fl(a, b) ==
    LET u == Ulp(a \div b)
    IN  u * RoundHalfEven(a, b * u)

RECURSIVE FlMul(_, _, _)
\* the float nearest to a * b / d; the factors of two that d shares with a
\* or b are cancelled first, which keeps a * b small
FlMul(a, b, d) ==
    IF d % 2 = 0 /\ a % 2 = 0 THEN FlMul(a \div 2, b, d \div 2)
    ELSE IF d % 2 = 0 /\ b % 2 = 0 THEN FlMul(a, b \div 2, d \div 2)
    ELSE Fl(a * b, d)

\* the float literals 0.995 and 1.005, as fractions Num / Den
Num995  == RoundHalfEven(995 * 2 ^ Precision, 1000)
Den995  == 2 ^ Precision
Num1005 == RoundHalfEven(1005 * 2 ^ (Precision - 1), 1000)
Den1005 == 2 ^ (Precision - 1)

\* the largest grid_levels __init__ accepts
MaxGridLevels == 50
\* the largest price validate_price accepts, in price units
MaxPrice == 10000000
\* display_grid_status runs every DisplayEvery-th cycle
DisplayEvery == 10

(***************************************************************************)
(* Inputs.  A command line gives lower_price, upper_price (decimal         *)
(* strings, here in eighths of a price unit) and grid_levels.              *)
(***************************************************************************)
Eighths(k) == (k * Unit) \div 8

Arg(lo, hi, n, dry) == [lower |-> lo, upper |-> hi, levels |-> n, dry_run |-> dry]

\* the runs explored in full: the scenario 100..120 with 4 levels, a range
\* narrower than 0.5%, a range whose width is not a float, and two
\* invalid inputs
RunArgs ==
    { Arg(Eighths(800), Eighths(960), 4, d) : d \in BOOLEAN }
    \cup { Arg(Eighths(800), Eighths(802), 2, d) : d \in BOOLEAN }
    \cup { Arg(Eighths(483), Eighths(1510), 2, FALSE),
           Arg(Eighths(960), Eighths(800), 4, FALSE),
           Arg(Eighths(800), Eighths(960), 1, FALSE) }

\* the inputs of the level computation alone
LevelArgs ==
    { Arg(Eighths(lo), Eighths(hi), n, FALSE) :
        lo \in {480, 483, 800, 801, 1000},
        hi \in {1000, 1510, 1514, 2018, 4000},
        n \in {1, 2, 3, 4, 5, 7, 50, 51} }
    \cup { Arg(Eighths(800), Eighths(960), 4, FALSE),
           Arg(Eighths(800), Eighths(802), 2, FALSE),
           Arg(0, Eighths(960), 4, FALSE) }

\* the prices the venue's ticker may report
RefPrices == { Eighths(483), Eighths(801), Eighths(880), Eighths(1600) }

\* place_grid_order returned None
NoOrder == [dry |-> FALSE, tag |-> "None", n |-> 0]

\* no place_grid_order call yet
NoPlace == [side |-> "NONE", price |-> 0, ok |-> FALSE]

VARIABLES
    args,            \* the command line
    pc,              \* where the run is
    lower_price, upper_price, grid_levels, dry_run,
    buy_levels, sell_levels,
    grid_orders,     \* self.grid_orders, a dict in insertion order:
                     \* a sequence of [price, order_id, side], prices distinct
    running,         \* self.running
    venue,           \* the orders the venue accepted: order k is venue[k]
    current_price,   \* the last reference price the run fetched
    idx,             \* the position of the for loop the run is in
    orders_to_replace,
    cycle_count,
    now,             \* sleeps done since start_time
    cancelled_count,
    in_handler,      \* run_grid is in one of its except clauses
    exit_reason,     \* how run_grid left its loop
    cancel_log,      \* the cancel_order calls of the last stop_grid: [order_id,
                     \* ok: the order was cancelled (in a dry run: reported so)]
    place_log,       \* the last place_grid_order call: [side, price, ok]
    place_calls,     \* the place_grid_order calls of this cycle (or of initialize_grid)
    place_failed,    \* a place_grid_order call returned None
    warned           \* this cycle printed a price-out-of-range warning

botvars == <<lower_price, upper_price, grid_levels, dry_run, buy_levels, sell_levels>>

runvars == <<grid_orders, running, venue, current_price, idx, orders_to_replace,
             cycle_count, now, cancelled_count, in_handler, exit_reason,
             cancel_log, place_log, place_calls, place_failed, warned>>

(***************************************************************************)
(* The OCO pair of src/src/advanced/oco.py: main() and place_oco_order on  *)
(* the calling thread, monitor_orders on the daemon thread it starts.      *)
(***************************************************************************)
\* float('nan'), which the command line's "nan" parses to: every comparison
\* with it is false
NaN == 0 - 1

OcoPrice(k) == k * Unit

OcoArg(side, tp, sl, dry, wait) ==
    [side |-> side, take_profit |-> tp, stop_loss |-> sl, dry_run |-> dry,
     monitor_time |-> wait]

\* the command lines explored in full; monitor_time in polling intervals
OcoArgs ==
    { OcoArg(side, OcoPrice(110), OcoPrice(90), dry, wait) :
        side \in {"SELL", "BUY"}, dry \in BOOLEAN, wait \in {1, 3} }
    \cup { OcoArg("BUY", OcoPrice(90), OcoPrice(110), FALSE, 1),
           OcoArg("SELL", OcoPrice(90), OcoPrice(110), FALSE, 1),
           OcoArg("SELL", OcoPrice(100), OcoPrice(90), FALSE, 1),
           OcoArg("SELL", OcoPrice(110), 0, FALSE, 1) }

\* the inputs of place_oco_order alone
OcoPriceArgs ==
    { OcoArg(side, tp, sl, FALSE, 1) :
        side \in {"SELL", "BUY"},
        tp \in {NaN, OcoPrice(90), OcoPrice(100), OcoPrice(110), OcoPrice(120)},
        sl \in {NaN, OcoPrice(90), OcoPrice(100), OcoPrice(110), OcoPrice(120)} }

\* the prices the venue's ticker may report to place_oco_order
OcoRefPrices == { OcoPrice(100), OcoPrice(110) }

\* an order's status at the venue ("NONE": never accepted)
Statuses == {"NEW", "FILLED", "CANCELED", "EXPIRED"}

VARIABLES
    oco_args,        \* the command line
    oco_pc,          \* where main() / place_oco_order is
    oco_price,       \* current_price of place_oco_order
    oco_valid,       \* what validate_oco_prices returned
    create_calls,    \* the futures_create_order calls of place_oco_order
    tp_order,        \* the take-profit order's status at the venue
    sl_order,        \* the stop-loss order's status at the venue
    mon_pc,          \* where the monitor thread is
    tp_status,       \* what the monitor's last poll read
    sl_status,
    start_time,      \* of monitor_orders
    wake,            \* when the monitor's time.sleep(10) returns
    join_start,      \* when main() began monitor_thread.join
    oco_now,         \* the clock, in polling intervals
    oco_cancels,     \* the futures_cancel_order calls of the monitor:
                     \* [leg, ok: the venue cancelled the order]
    mon_exit         \* how monitor_orders left its loop

ocovars == <<oco_args, oco_pc, oco_price, oco_valid, create_calls, tp_order,
             sl_order, mon_pc, tp_status, sl_status, start_time, wake,
             join_start, oco_now, oco_cancels, mon_exit>>

OcoInitAt(A, entry) ==
    /\ oco_args \in A
    /\ oco_pc = entry
    /\ oco_price = 0
    /\ oco_valid = FALSE
    /\ create_calls = 0
    /\ tp_order = "NONE"
    /\ sl_order = "NONE"
    /\ mon_pc = "off"
    /\ tp_status = "NONE"
    /\ sl_status = "NONE"
    /\ start_time = 0
    /\ wake = 0
    /\ join_start = 0
    /\ oco_now = 0
    /\ oco_cancels = <<>>
    /\ mon_exit = "none"

OcoInitWith(A) == OcoInitAt(A, "start")

\* no OCO command is run
OcoOff == OcoInitWith({OcoArg("SELL", OcoPrice(110), OcoPrice(90), TRUE, 1)})

(***************************************************************************)
(* The TWAP run of src/src/advanced/twap.py: main() and                    *)
(* execute_twap_strategy.  Quantities are floats in units of               *)
(* 2^-QtyFracBits, prices and costs floats in units of 2^-FracBits, times  *)
(* floats in units of 2^-FracBits seconds.                                 *)
(***************************************************************************)
TwapArg(q, d, n, dry) ==
    [quantity |-> q, duration |-> d, orders |-> n, dry_run |-> dry]

\* the command lines explored: 1.0 over 1 minute in 1, 3 and 5 orders,
\* 0.5 in 3 orders as a dry run, and four invalid ones
TwapArgs ==
    { TwapArg(QUnit, 1, n, FALSE) : n \in {1, 3, 5} }
    \cup { TwapArg(QUnit \div 2, 1, 3, TRUE),
           TwapArg(QUnit, 0, 3, FALSE),
           TwapArg(QUnit, 1, 0, FALSE),
           TwapArg(QUnit, 1, 101, FALSE),
           TwapArg(0, 1, 3, FALSE) }

\* the prices the venue's ticker may report to the TWAP run
TwapPrices == { 100 * Unit, 101 * Unit }

VARIABLES
    twap_args,       \* the command line
    twap_pc,         \* where main() / execute_twap_strategy is
    schedule,        \* the list of [quantity, delay]
    initial_price,
    twap_i,          \* i of the for loop over the schedule
    successful_orders,
    total_executed_quantity,
    total_cost,
    avg_price,
    twap_now,        \* the clock
    twap_start,      \* start_time
    twap_log,        \* the execute_twap_order calls so far: [slice,
                     \* time: when the slice's sleep was over, outcome]
    twap_creates,    \* the futures_create_order calls so far
    twap_result      \* what execute_twap_strategy returned

twapvars == <<twap_args, twap_pc, schedule, initial_price, twap_i,
              successful_orders, total_executed_quantity, total_cost, avg_price,
              twap_now, twap_start, twap_log, twap_creates, twap_result>>

\* a run starts in main() or, called from other code, in execute_twap_strategy
TwapInitWith(A, entries) ==
    /\ twap_args \in A
    /\ twap_pc \in entries
    /\ schedule = <<>>
    /\ initial_price = 0
    /\ twap_i = 0
    /\ successful_orders = 0
    /\ total_executed_quantity = 0
    /\ total_cost = 0
    /\ avg_price = 0
    /\ twap_now = 0
    /\ twap_start = 0
    /\ twap_log = <<>>
    /\ twap_creates = 0
    /\ twap_result = "none"

\* no TWAP command is run
TwapOff == TwapInitWith({TwapArg(QUnit \div 2, 1, 3, TRUE)}, {"main"})

(***************************************************************************)
(* The direct placers: place_market_order (market_orders.py),              *)
(* place_limit_order and check_order_status (limit_orders.py) and          *)
(* place_stop_limit_order (stop_limit.py), each run through its main().    *)
(***************************************************************************)
PlaceArg(kind, side, q, price, stop, dry, check) ==
    [kind |-> kind, side |-> side, quantity |-> q, price |-> price,
     stop_price |-> stop, dry_run |-> dry, check_status |-> check]

\* the float nearest to 0.01
Hundredth == Fl(10 * QUnit, 1000)

\* the command lines explored, all for 0.01 or the invalid quantity 0:
\* market orders; limit orders at 0 (invalid), 40, 100 and 160 with and
\* without --check-status; stop-limit orders with stop and limit prices
\* around 100 or nan
PlaceArgs ==
    { PlaceArg("market", side, q, 0, 0, dry, FALSE) :
        side \in {"BUY", "SELL"}, q \in {0, Hundredth}, dry \in BOOLEAN }
    \cup { PlaceArg("limit", side, Hundredth, k * Unit, 0, dry, check) :
             side \in {"BUY", "SELL"}, k \in {0, 40, 100, 160},
             dry \in BOOLEAN, check \in BOOLEAN }
    \cup { PlaceArg("stop_limit", side, Hundredth, limit, stop, dry, FALSE) :
             side \in {"BUY", "SELL"},
             limit \in {NaN, 80 * Unit, 90 * Unit, 110 * Unit, 120 * Unit},
             stop \in {NaN, 0, 90 * Unit, 110 * Unit},
             dry \in BOOLEAN }

\* the price the venue's ticker may report to a placer
PlaceRefPrices == { 100 * Unit }

\* the availableBalance the venue may report
Balances == { 0, Unit, 10 * Unit }

NoCalls == [ticker |-> 0, account |-> 0, create |-> 0, status |-> 0]

VARIABLES
    pl_args,         \* the command line
    pl_pc,           \* where main() / the placer is
    pl_price,        \* current_price
    pl_calls,        \* the Gateway calls so far: futures_symbol_ticker,
                     \* futures_account, futures_create_order, futures_get_order
    pl_result,       \* what the placer returned: "None", or the status of
                     \* the order it returned
    available_balance \* what futures_account answered: {} before the query
                     \* and when it raised

placevars == <<pl_args, pl_pc, pl_price, pl_calls, pl_result, available_balance>>

\* a command line starts in main(); "absent" is a command that is not run
PlaceInitWith(A, entry) ==
    /\ pl_args \in A
    /\ pl_pc = entry
    /\ pl_price = 0
    /\ pl_calls = NoCalls
    /\ pl_result = "none"
    /\ available_balance = {}

\* no placer is run
PlaceOff == PlaceInitWith({PlaceArg("market", "BUY", Hundredth, 0, 0, TRUE, FALSE)},
                          "start")

(***************************************************************************)
(* The validators of utils.py, each called on its own.  A string is a      *)
(* sequence of one-character strings.                                      *)
(***************************************************************************)
ValArg(validator, value) == [validator |-> validator, value |-> value]

\* the arguments explored: symbols made of up to two characters followed
\* by USDT, usdt, USD or USDT and a blank; sides; quantities and prices
\* from nan and 0 up
ValidatorArgs ==
    { ValArg("symbol", head \o tail) :
        head \in UNION { [1 .. n -> {"b", "T", "1", "-", " "}] : n \in 0 .. 2 },
        tail \in { <<"U", "S", "D", "T">>, <<"u", "s", "d", "t">>,
                   <<"U", "S", "D">>, <<"U", "S", "D", "T", " ">> } }
    \cup { ValArg("side", v) :
             v \in { <<>>, <<" ">>, <<"B", "U", "Y">>, <<"b", "u", "y">>,
                     <<"S", "E", "L", "L">>, <<" ", "s", "e", "l", "l", " ">>,
                     <<"B", "U", "Y", "S">>, <<"S", "E", "L">>, <<"B", "-", "Y">> } }
    \cup { ValArg("quantity", v) :
             v \in { NaN, 0, Fl(QUnit, 1000) - 1, Fl(QUnit, 1000), QUnit, 1000 * QUnit } }
    \cup { ValArg("price", v) : v \in { NaN, 0, 1, Unit, 1000 * Unit } }

VARIABLES
    val_args,        \* the validator called and its argument
    val_result       \* "none" before the call, "ok" if it returned,
                     \* "ValueError" if it raised

validatorvars == <<val_args, val_result>>

\* no validator is called on its own
ValidatorsOff ==
    /\ val_args = ValArg("price", Unit)
    /\ val_result = "ok"

gridvars == <<args, pc, botvars, runvars>>

\* the state of the strategies other than the grid, the OCO pair, the TWAP run
strategyvars == <<ocovars, twapvars, placevars, validatorvars>>
notoco == <<gridvars, twapvars, placevars, validatorvars>>
nottwap == <<gridvars, ocovars, placevars, validatorvars>>
notplace == <<gridvars, ocovars, twapvars, validatorvars>>

vars == <<gridvars, strategyvars>>


(***************************************************************************)
(* GridTradingBot.__init__ and calculate_grid_levels                       *)
(***************************************************************************)
\* validate_price: float(price), which rounds the decimal to a float
validate_price(p) == IF p = NaN THEN NaN ELSE Fl(p, 1)

\* what validate_price raises ValueError for: p <= 0 and p > 10000000 are
\* both false of nan
BadPrice(p) ==
    /\ p # NaN
    /\ \/ validate_price(p) <= 0
       \/ validate_price(p) \div Unit > MaxPrice
       \/ (validate_price(p) \div Unit = MaxPrice /\ validate_price(p) % Unit > 0)

price_range(lo, hi) == Fl(hi - lo, 1)

price_step(lo, hi, n) == Fl(price_range(lo, hi), n - 1)

\* level_price = self.lower_price + (i * price_step), i = 0 .. n-1
level_price(lo, hi, n, i) == Fl(lo + Fl(i * price_step(lo, hi, n), 1), 1)

\* i < self.grid_levels // 2 goes to buy_levels, the rest to sell_levels
NumBuy(n) == n \div 2

calc_buy_levels(lo, hi, n) ==
    [k \in 1 .. NumBuy(n) |-> level_price(lo, hi, n, k - 1)]

calc_sell_levels(lo, hi, n) ==
    [k \in 1 .. (n - NumBuy(n)) |-> level_price(lo, hi, n, NumBuy(n) + k - 1)]

\* the ValueErrors of __init__
ValidArgs(a) ==
    /\ ~BadPrice(a.lower)
    /\ ~BadPrice(a.upper)
    /\ validate_price(a.lower) < validate_price(a.upper)
    /\ a.levels >= 2
    /\ a.levels <= MaxGridLevels

Construct ==
    /\ pc = "new"
    /\ IF ValidArgs(args)
       THEN /\ lower_price' = validate_price(args.lower)
            /\ upper_price' = validate_price(args.upper)
            /\ grid_levels' = args.levels
            /\ dry_run' = args.dry_run
            /\ buy_levels' = calc_buy_levels(validate_price(args.lower),
                                             validate_price(args.upper), args.levels)
            /\ sell_levels' = calc_sell_levels(validate_price(args.lower),
                                               validate_price(args.upper), args.levels)
            /\ pc' = "ready"
       ELSE /\ pc' = "rejected"
            /\ UNCHANGED <<lower_price, upper_price, grid_levels, dry_run,
                           buy_levels, sell_levels>>
    /\ UNCHANGED <<args, runvars>>
    /\ UNCHANGED strategyvars

GridInitAt(A, entry) ==
    /\ args \in A
    /\ pc = entry
    /\ lower_price = 0
    /\ upper_price = 0
    /\ grid_levels = 0
    /\ dry_run = FALSE
    /\ buy_levels = <<>>
    /\ sell_levels = <<>>
    /\ grid_orders = <<>>
    /\ running = FALSE
    /\ venue = <<>>
    /\ current_price = 0
    /\ idx = 0
    /\ orders_to_replace = <<>>
    /\ cycle_count = 0
    /\ now = 0
    /\ cancelled_count = 0
    /\ in_handler = FALSE
    /\ exit_reason = "none"
    /\ cancel_log = <<>>
    /\ place_log = NoPlace
    /\ place_calls = 0
    /\ place_failed = FALSE
    /\ warned = FALSE

GridInitWith(A) == GridInitAt(A, "new")

(***************************************************************************)
(* self.grid_orders, a dict keyed by price                                 *)
(***************************************************************************)
HasKey(d, k) == \E i \in 1 .. Len(d) : d[i].price = k

\* d[e.price] = e: an existing key keeps its place, a new one goes last
Put(d, e) ==
    IF HasKey(d, e.price)
    THEN [i \in 1 .. Len(d) |-> IF d[i].price = e.price THEN e ELSE d[i]]
    ELSE Append(d, e)

\* a del that removes nothing
DelKeepsKey(d, k) == d

\* del d[k]
Del(d, k) == SelectSeq(d, LAMBDA x : x.price # k)

Entry(price, order_id, side) == [price |-> price, order_id |-> order_id, side |-> side]

(***************************************************************************)
(* The venue behind self.client                                            *)
(***************************************************************************)
VenueOrder(side, price) == [side |-> side, price |-> price, status |-> "NEW"]

\* futures_create_order succeeds (ok: the venue and the network allow it)
Accepted(ok) == ok /\ Len(venue) < MaxOrders

\* a place_grid_order that sends the order in a dry run too
place_grid_order_ignores_dry_run(side, price, ok) ==
    IF Accepted(ok)
    THEN [dry |-> FALSE, tag |-> "", n |-> Len(venue) + 1]
    ELSE NoOrder

\* place_grid_order(side, price): the order it returns, or NoOrder for None
place_grid_order(side, price, ok) ==
    IF dry_run
    THEN [dry |-> TRUE, tag |-> side, n |-> Len(grid_orders)]
    ELSE IF Accepted(ok)
         THEN [dry |-> FALSE, tag |-> "", n |-> Len(venue) + 1]
         ELSE NoOrder

\* the venue after place_grid_order(side, price)
VenueAfterPlace(side, price, ok) ==
    IF ~dry_run /\ Accepted(ok) THEN Append(venue, VenueOrder(side, price)) ELSE venue

\* the bookkeeping of one place_grid_order call
Placed(side, price, ok) ==
    /\ venue' = VenueAfterPlace(side, price, ok)
    /\ place_log' = [side |-> side, price |-> price,
                     ok |-> place_grid_order(side, price, ok) # NoOrder]
    /\ place_calls' = place_calls + 1
    /\ place_failed' = (place_failed \/ place_grid_order(side, price, ok) = NoOrder)

\* order = place_grid_order(side, price); if order: self.grid_orders[price] = {...}
PlaceAndTrack(d, side, price, ok) ==
    IF place_grid_order(side, price, ok) # NoOrder
    THEN Put(d, Entry(price, place_grid_order(side, price, ok), side))
    ELSE d

\* the venue fills a live order.  A fill shows only in the next status
\* poll or cancel, so it is taken at the head of the loop: every order of
\* fills and polls the run can see is an order of these steps
Fill ==
    /\ pc = "loop"
    /\ \E k \in 1 .. Len(venue) :
         /\ venue[k].status = "NEW"
         /\ venue' = [venue EXCEPT ![k].status = "FILLED"]
    /\ UNCHANGED <<args, pc, botvars, grid_orders, running, current_price, idx,
                   orders_to_replace, cycle_count, now, cancelled_count, in_handler,
                   exit_reason, cancel_log, place_log, place_calls, place_failed,
                   warned>>
    /\ UNCHANGED strategyvars

(***************************************************************************)
(* stop_grid, entered from one of the three exits of run_grid              *)
(***************************************************************************)
\* a faulty variant of EnterStopGrid: run_grid returns without stop_grid
ReturnWithoutStopGrid(reason, handler) ==
    /\ pc' = "done"
    /\ running' = FALSE
    /\ cancelled_count' = 0
    /\ cancel_log' = <<>>
    /\ idx' = 1
    /\ exit_reason' = reason
    /\ in_handler' = handler

\* self.running = False; cancelled_count = 0; the for loop starts
EnterStopGrid(reason, handler) ==
    /\ pc' = "teardown"
    /\ running' = FALSE
    /\ cancelled_count' = 0
    /\ cancel_log' = <<>>
    /\ idx' = 1
    /\ exit_reason' = reason
    /\ in_handler' = handler

(***************************************************************************)
(* initialize_grid                                                         *)
(***************************************************************************)
\* run_grid calls initialize_grid, which fetches the reference price first
InitPrice ==
    /\ pc = "ready"
    /\ \/ \E p \in RefPrices :
            /\ current_price' = p
            /\ pc' = "init_buy"
            /\ idx' = 1
            /\ UNCHANGED exit_reason
       \/ \* get_current_price raises: initialize_grid returns False, and so
          \* does run_grid
          /\ pc' = "failed"
          /\ exit_reason' = "init_failed"
          /\ UNCHANGED <<current_price, idx>>
    /\ UNCHANGED <<args, botvars, grid_orders, running, venue, orders_to_replace,
                   cycle_count, now, cancelled_count, in_handler, cancel_log,
                   place_log, place_calls, place_failed, warned>>
    /\ UNCHANGED strategyvars

\* a faulty variant of BelowReference: a level equal to the reference
\* price gets a BUY order as well
BelowOrAtReference(price) == price <= current_price

\* if price < current_price
BelowReference(price) == price < current_price

\* if price > current_price
AboveReference(price) == price > current_price

\* one iteration of: for price in self.buy_levels
InitBuy ==
    /\ pc = "init_buy"
    /\ idx <= Len(buy_levels)
    /\ IF BelowReference(buy_levels[idx])
       THEN \E ok \in BOOLEAN :
              /\ Placed("BUY", buy_levels[idx], ok)
              /\ grid_orders' = PlaceAndTrack(grid_orders, "BUY", buy_levels[idx], ok)
       ELSE UNCHANGED <<venue, place_log, place_calls, place_failed, grid_orders>>
    /\ IF idx = Len(buy_levels)
       THEN pc' = "init_sell" /\ idx' = 1
       ELSE pc' = pc /\ idx' = idx + 1
    /\ UNCHANGED <<args, botvars, running, current_price, orders_to_replace,
                   cycle_count, now, cancelled_count, in_handler, exit_reason,
                   cancel_log, warned>>
    /\ UNCHANGED strategyvars

\* one iteration of: for price in self.sell_levels; after the last one
\* initialize_grid returns True and run_grid sets running, start_time, end_time
InitSell ==
    /\ pc = "init_sell"
    /\ idx <= Len(sell_levels)
    /\ IF AboveReference(sell_levels[idx])
       THEN \E ok \in BOOLEAN :
              /\ Placed("SELL", sell_levels[idx], ok)
              /\ grid_orders' = PlaceAndTrack(grid_orders, "SELL", sell_levels[idx], ok)
       ELSE UNCHANGED <<venue, place_log, place_calls, place_failed, grid_orders>>
    /\ IF idx = Len(sell_levels)
       THEN pc' = "loop" /\ idx' = 0 /\ running' = TRUE /\ now' = 0 /\ cycle_count' = 0
       ELSE pc' = pc /\ idx' = idx + 1 /\ UNCHANGED <<running, now, cycle_count>>
    /\ UNCHANGED <<args, botvars, current_price, orders_to_replace,
                   cancelled_count, in_handler, exit_reason, cancel_log, warned>>
    /\ UNCHANGED strategyvars

(***************************************************************************)
(* run_grid: the supervision loop                                          *)
(***************************************************************************)
\* while self.running and datetime.now() < end_time: cycle_count += 1;
\* current_price = self.get_current_price()
LoopTest ==
    /\ pc = "loop"
    /\ IF running /\ now < Duration
       THEN \/ \E p \in RefPrices :
                 /\ current_price' = p
                 /\ cycle_count' = cycle_count + 1
                 /\ pc' = IF dry_run THEN "display" ELSE "check"
                 /\ UNCHANGED <<running, cancelled_count, cancel_log, idx,
                                exit_reason, in_handler>>
            \/ \* get_current_price raises: except Exception, stop_grid
               /\ cycle_count' = cycle_count + 1
               /\ EnterStopGrid("error", TRUE)
               /\ UNCHANGED current_price
       ELSE \* the duration has elapsed: stop_grid, return True
            /\ EnterStopGrid("duration", FALSE)
            /\ UNCHANGED <<current_price, cycle_count>>
    /\ place_calls' = 0
    /\ place_log' = NoPlace
    /\ place_failed' = FALSE
    /\ warned' = FALSE
    /\ UNCHANGED <<args, botvars, grid_orders, venue, orders_to_replace, now>>
    /\ UNCHANGED strategyvars

(***************************************************************************)
(* check_and_replace_orders                                                *)
(***************************************************************************)
\* current_price = self.get_current_price(); orders_to_replace = []
CheckStart ==
    /\ pc = "check"
    /\ \/ /\ pc' = "poll"
          /\ idx' = 1
          /\ orders_to_replace' = <<>>
       \/ \* get_current_price raises: the outer except logs it and returns
          /\ pc' = "display"
          /\ UNCHANGED <<idx, orders_to_replace>>
    /\ UNCHANGED <<args, botvars, grid_orders, running, venue, current_price,
                   cycle_count, now, cancelled_count, in_handler, exit_reason,
                   cancel_log, place_log, place_calls, place_failed, warned>>
    /\ UNCHANGED strategyvars

\* a poll whose failed query ends the whole cycle
PollStepAbortsOnFailure ==
    /\ pc = "poll"
    /\ idx <= Len(grid_orders)
    /\ \/ /\ orders_to_replace' =
                IF venue[grid_orders[idx].order_id.n].status = "FILLED"
                THEN Append(orders_to_replace, grid_orders[idx])
                ELSE orders_to_replace
          /\ idx' = idx + 1
          /\ pc' = pc
       \/ /\ pc' = "display"
          /\ UNCHANGED <<idx, orders_to_replace>>
    /\ UNCHANGED <<args, botvars, grid_orders, running, venue, current_price,
                   cycle_count, now, cancelled_count, in_handler, exit_reason,
                   cancel_log, place_log, place_calls, place_failed, warned>>
    /\ UNCHANGED strategyvars

\* futures_get_order for the idx-th tracked order
PollStep ==
    /\ pc = "poll"
    /\ idx <= Len(grid_orders)
    /\ \/ \* the venue answers with the order's status
          orders_to_replace' =
              IF venue[grid_orders[idx].order_id.n].status = "FILLED"
              THEN Append(orders_to_replace, grid_orders[idx])
              ELSE orders_to_replace
       \/ \* the query raises: logged, the loop goes on
          UNCHANGED orders_to_replace
    /\ idx' = idx + 1
    /\ UNCHANGED <<args, pc, botvars, grid_orders, running, venue, current_price,
                   cycle_count, now, cancelled_count, in_handler, exit_reason,
                   cancel_log, place_log, place_calls, place_failed, warned>>
    /\ UNCHANGED strategyvars

PollDone ==
    /\ pc = "poll"
    /\ idx > Len(grid_orders)
    /\ pc' = "replace"
    /\ idx' = 1
    /\ UNCHANGED <<args, botvars, grid_orders, running, venue, current_price,
                   orders_to_replace, cycle_count, now, cancelled_count,
                   in_handler, exit_reason, cancel_log, place_log, place_calls,
                   place_failed, warned>>
    /\ UNCHANGED strategyvars

new_side(old_side) == IF old_side = "BUY" THEN "SELL" ELSE "BUY"

\* a faulty variant of new_price: the replacement price is not clamped
new_price_unclamped(side, lvl) ==
    IF side = "BUY" THEN Fl(lvl * Num995, Den995) ELSE Fl(lvl * Num1005, Den1005)

\* the price of the order that replaces a filled order at level_price
new_price(side, lvl) ==
    IF side = "BUY"
    THEN IF Fl(lvl * Num995, Den995) < lower_price
         THEN lower_price
         ELSE Fl(lvl * Num995, Den995)
    ELSE IF Fl(lvl * Num1005, Den1005) > upper_price
         THEN upper_price
         ELSE Fl(lvl * Num1005, Den1005)

\* one iteration of: for level_price, old_order_info in orders_to_replace
ReplaceStep ==
    /\ pc = "replace"
    /\ idx <= Len(orders_to_replace)
    /\ IF HasKey(grid_orders, orders_to_replace[idx].price)
       THEN LET old  == orders_to_replace[idx]
                side == new_side(old.side)
                price == new_price(side, old.price)
            IN  \E ok \in BOOLEAN :
                  /\ Placed(side, price, ok)
                  /\ grid_orders' =
                        PlaceAndTrack(Del(grid_orders, old.price), side, price, ok)
                  /\ idx' = idx + 1
                  /\ pc' = pc
       ELSE \* del raises KeyError: the outer except logs it and returns
            /\ pc' = "display"
            /\ UNCHANGED <<idx, grid_orders, venue, place_log, place_calls,
                           place_failed>>
    /\ UNCHANGED <<args, botvars, running, current_price, orders_to_replace,
                   cycle_count, now, cancelled_count, in_handler, exit_reason,
                   cancel_log, warned>>
    /\ UNCHANGED strategyvars

\* the loop is over: check_and_replace_orders returns, its locals are gone
ReplaceDone ==
    /\ pc = "replace"
    /\ idx > Len(orders_to_replace)
    /\ pc' = "display"
    /\ idx' = 0
    /\ orders_to_replace' = <<>>
    /\ UNCHANGED <<args, botvars, grid_orders, running, venue, current_price,
                   cycle_count, now, cancelled_count, in_handler, exit_reason,
                   cancel_log, place_log, place_calls, place_failed, warned>>
    /\ UNCHANGED strategyvars

(***************************************************************************)
(* display_grid_status, every DisplayEvery-th cycle, and the sleep         *)
(***************************************************************************)
OutOfRange(p) == p < lower_price \/ p > upper_price

Display ==
    /\ pc = "display"
    /\ pc' = "sleep"
    /\ IF cycle_count % DisplayEvery = 0
       THEN \/ \E p \in RefPrices :
                 warned' = OutOfRange(p)
            \/ \* get_current_price raises: logged
               UNCHANGED warned
       ELSE UNCHANGED warned
    /\ UNCHANGED <<args, botvars, grid_orders, running, venue, current_price, idx,
                   orders_to_replace, cycle_count, now, cancelled_count,
                   in_handler, exit_reason, cancel_log, place_log, place_calls,
                   place_failed>>
    /\ UNCHANGED strategyvars

\* time.sleep(30); the iteration's current_price is gone
Sleep ==
    /\ pc = "sleep"
    /\ pc' = "loop"
    /\ now' = now + 1
    /\ current_price' = 0
    /\ UNCHANGED <<args, botvars, grid_orders, running, venue, idx,
                   orders_to_replace, cycle_count, cancelled_count, in_handler,
                   exit_reason, cancel_log, place_log, place_calls, place_failed,
                   warned>>
    /\ UNCHANGED strategyvars

(***************************************************************************)
(* stop_grid and cancel_order                                              *)
(***************************************************************************)
\* futures_cancel_order succeeds: the order is live and the call gets through
VenueCancels(order_id, ok) == ok /\ venue[order_id.n].status = "NEW"

\* cancel_order(order_id) returns True
cancel_order(order_id, ok) == IF dry_run THEN TRUE ELSE VenueCancels(order_id, ok)

\* a faulty variant of StopGridStep: the first failed cancel ends the loop
StopGridStepAbortsOnFailure ==
    /\ pc = "teardown"
    /\ idx <= Len(grid_orders)
    /\ \E ok \in BOOLEAN :
         LET id == grid_orders[idx].order_id
         IN  /\ venue' = IF ~dry_run /\ VenueCancels(id, ok)
                         THEN [venue EXCEPT ![id.n].status = "CANCELED"]
                         ELSE venue
             /\ cancelled_count' =
                   IF cancel_order(id, ok) THEN cancelled_count + 1 ELSE cancelled_count
             /\ cancel_log' = Append(cancel_log,
                                     [order_id |-> id,
                                      ok |-> (dry_run \/ VenueCancels(id, ok))])
             /\ idx' = IF cancel_order(id, ok) THEN idx + 1 ELSE Len(grid_orders) + 1
    /\ UNCHANGED <<args, pc, botvars, grid_orders, running, current_price,
                   orders_to_replace, cycle_count, now, in_handler, exit_reason,
                   place_log, place_calls, place_failed, warned>>
    /\ UNCHANGED strategyvars

\* one iteration of: for level_price, order_info in list(self.grid_orders.items())
StopGridStep ==
    /\ pc = "teardown"
    /\ idx <= Len(grid_orders)
    /\ \E ok \in BOOLEAN :
         LET id == grid_orders[idx].order_id
         IN  /\ venue' = IF ~dry_run /\ VenueCancels(id, ok)
                         THEN [venue EXCEPT ![id.n].status = "CANCELED"]
                         ELSE venue
             /\ cancelled_count' =
                   IF cancel_order(id, ok) THEN cancelled_count + 1 ELSE cancelled_count
             /\ cancel_log' = Append(cancel_log,
                                     [order_id |-> id,
                                      ok |-> (dry_run \/ VenueCancels(id, ok))])
    /\ idx' = idx + 1
    /\ UNCHANGED <<args, pc, botvars, grid_orders, running, current_price,
                   orders_to_replace, cycle_count, now, in_handler, exit_reason,
                   place_log, place_calls, place_failed, warned>>
    /\ UNCHANGED strategyvars

\* the loop is over: the count is reported and run_grid returns
StopGridDone ==
    /\ pc = "teardown"
    /\ idx > Len(grid_orders)
    /\ pc' = "done"
    /\ UNCHANGED <<args, botvars, runvars>>
    /\ UNCHANGED strategyvars

\* Ctrl+C: KeyboardInterrupt reaches run_grid's except clause, which runs
\* stop_grid; inside an except clause it leaves run_grid
Interrupt ==
    /\ pc \in {"ready", "init_buy", "init_sell", "loop", "check", "poll", "replace",
               "display", "sleep", "teardown"}
    /\ IF in_handler
       THEN /\ pc' = "killed"
            /\ UNCHANGED <<running, cancelled_count, cancel_log, idx, exit_reason,
                           in_handler>>
       ELSE EnterStopGrid("signal", TRUE)
    /\ UNCHANGED <<args, botvars, grid_orders, venue, current_price,
                   orders_to_replace, cycle_count, now, place_log, place_calls,
                   place_failed, warned>>
    /\ UNCHANGED strategyvars

\* no grid is run
GridOff == GridInitWith({Arg(Eighths(800), Eighths(802), 2, TRUE)})

InitWith(A) == GridInitWith(A) /\ OcoOff /\ TwapOff /\ PlaceOff /\ ValidatorsOff

Init == InitWith(RunArgs)

Next ==
    \/ Construct
    \/ InitPrice
    \/ InitBuy
    \/ InitSell
    \/ LoopTest
    \/ CheckStart
    \/ PollStep
    \/ PollDone
    \/ ReplaceStep
    \/ ReplaceDone
    \/ Display
    \/ Sleep
    \/ StopGridStep
    \/ StopGridDone
    \/ Interrupt
    \/ Fill

Spec == Init /\ [][Next]_vars

InitLevels == InitWith(LevelArgs)

NextLevels == Construct

SpecLevels == InitLevels /\ [][NextLevels]_vars

(***************************************************************************)
(* The run under the scheduling of a sequential program: every Gateway     *)
(* call and every sleep returns, so the run's own steps are always taken;  *)
(* fills and Ctrl+C are the environment's and may never come.              *)
(***************************************************************************)
BotStep ==
    \/ Construct
    \/ InitPrice
    \/ InitBuy
    \/ InitSell
    \/ LoopTest
    \/ CheckStart
    \/ PollStep
    \/ PollDone
    \/ ReplaceStep
    \/ ReplaceDone
    \/ Display
    \/ Sleep
    \/ StopGridStep
    \/ StopGridDone

\* the runs explored for liveness: the narrow range, live and dry
LiveArgs == { Arg(Eighths(800), Eighths(802), 2, d) : d \in BOOLEAN }

InitLive == InitWith(LiveArgs)

SpecLive == InitLive /\ [][Next]_vars /\ WF_vars(BotStep)

(***************************************************************************)
(* Properties of the grid run                                              *)
(***************************************************************************)
Live(k) == venue[k].status = "NEW"

Abs(x) == IF x < 0 THEN -x ELSE x

Min(x, y) == IF x < y THEN x ELSE y

Max(x, y) == IF x > y THEN x ELSE y

\* C1: at every moment of a grid run, no two live orders the grid placed at
\* the venue share a price (each level carries at most one live order)
C1_OneLiveOrderPerLevel ==
    \A i, j \in 1 .. Len(venue) :
        (i # j /\ Live(i) /\ Live(j)) => venue[i].price # venue[j].price

\* the orders cancel_order was called for in the last stop_grid
CancelAttempted == { cancel_log[i].order_id.n : i \in 1 .. Len(cancel_log) }

\* C2: when the run has stopped and stop_grid has finished, every order
\* the grid placed that is still live at the venue was sent a cancel
C2_TeardownCancelsEveryLiveOrder ==
    pc = "done" => \A k \in 1 .. Len(venue) : Live(k) => k \in CancelAttempted

\* C3: when stop_grid has finished, cancel_order was called once for every
\* tracked order, in order, whatever the earlier calls returned, and the
\* reported count is the number of those calls that cancelled their order
C3_TeardownIsBestEffort ==
    pc = "done" =>
        /\ Len(cancel_log) = Len(grid_orders)
        /\ \A i \in 1 .. Len(grid_orders) :
               cancel_log[i].order_id = grid_orders[i].order_id
        /\ cancelled_count = Cardinality({ i \in 1 .. Len(cancel_log) : cancel_log[i].ok })

\* a finished teardown in which a cancel failed and a later one succeeded
C3_Witness ==
    /\ pc = "done"
    /\ ~dry_run
    /\ \E i, j \in 1 .. Len(cancel_log) :
           i < j /\ ~cancel_log[i].ok /\ cancel_log[j].ok
    /\ cancelled_count >= 1

\* the replacement price the claim states: 0.5% off the filled price,
\* kept within the bounds
C4_Price(side, lvl) ==
    IF side = "SELL"
    THEN Min(Fl(lvl * Num1005, Den1005), upper_price)
    ELSE Max(Fl(lvl * Num995, Den995), lower_price)

\* C4: every order a poll saw FILLED is replaced in the same cycle: the
\* replacement loop ends only after the last of them, and each of its steps
\* removes the filled order's entry and calls place_grid_order exactly once,
\* for the opposite side, at 0.5% above (SELL) or below (BUY) the filled
\* price clamped to the bounds; an accepted replacement is tracked under
\* its price
C4_FillReplacedInCycle ==
    [][ /\ (pc = "replace" /\ pc' = "display") => idx > Len(orders_to_replace)
        /\ (pc = "replace" /\ pc' = "replace") =>
             LET old  == orders_to_replace[idx]
                 side == IF old.side = "BUY" THEN "SELL" ELSE "BUY"
             IN  /\ idx' = idx + 1
                 /\ \A i \in 1 .. Len(grid_orders') :
                        grid_orders'[i].order_id # old.order_id
                 /\ place_calls' = place_calls + 1
                 /\ Len(venue') <= Len(venue) + 1
                 /\ place_log'.side = side
                 /\ place_log'.price = C4_Price(side, old.price)
                 /\ place_log'.ok = (Len(venue') = Len(venue) + 1)
                 /\ place_log'.ok =>
                        /\ venue'[Len(venue')] =
                               VenueOrder(side, C4_Price(side, old.price))
                        /\ \E i \in 1 .. Len(grid_orders') :
                               /\ grid_orders'[i].price = C4_Price(side, old.price)
                               /\ grid_orders'[i].side = side
                               /\ grid_orders'[i].order_id.n = Len(venue')
      ]_vars

\* a filled BUY has just been replaced by an accepted SELL
C4_Witness ==
    /\ pc = "replace"
    /\ idx = 2
    /\ orders_to_replace[1].side = "BUY"
    /\ place_log.ok
    /\ place_log.side = "SELL"
    /\ \E i \in 1 .. Len(grid_orders) : grid_orders[i].order_id.n = Len(venue)

InBounds(p) == lower_price <= p /\ p <= upper_price

\* C5: every price the grid has submitted to the venue or tracks lies
\* within [lower_price, upper_price]
C5_PricesWithinBounds ==
    /\ \A k \in 1 .. Len(venue) : InBounds(venue[k].price)
    /\ \A i \in 1 .. Len(grid_orders) : InBounds(grid_orders[i].price)

\* C6: once initialization has succeeded and the loop is entered, the run
\* eventually leaves the loop and runs stop_grid
C6_LoopExitsIntoTeardown == (pc = "loop") ~> (pc = "teardown")

\* the loop ran for the whole duration and stop_grid has started
C6_Witness ==
    /\ pc = "teardown"
    /\ exit_reason = "duration"
    /\ now = Duration
    /\ cycle_count = Duration

\* C7: after initialization has succeeded, no Gateway failure ends the
\* run: the loop is left only on the stop signal or when the duration has
\* elapsed
C7_GatewayFailureNeverEndsRun ==
    pc \in {"teardown", "done", "killed"} => exit_reason \in {"duration", "signal"}

\* the levels initialize_grid must place an order at
C8_Expected ==
    { <<"BUY", buy_levels[i]>> : i \in { j \in 1 .. Len(buy_levels) :
                                           buy_levels[j] < current_price } }
    \cup { <<"SELL", sell_levels[i]>> : i \in { j \in 1 .. Len(sell_levels) :
                                                  sell_levels[j] > current_price } }

\* x is the decimal c / 100 up to one unit in the last place of a float
Near(x, c) == Abs(100 * x - c * Unit) <= 100 * Ulp(x)

\* C8: when initialize_grid has returned and every placement succeeded, the
\* orders placed and tracked are exactly a BUY at each BUY level strictly
\* below the reference price and a SELL at each SELL level strictly above
\* it; for lower 100, upper 120, 4 levels and reference 110 these are BUY at
\* 100 and 106.67 and SELL at 113.33 and 120
C8_InitialPlacement ==
    (pc = "loop" /\ cycle_count = 0 /\ ~place_failed) =>
        /\ { <<grid_orders[i].side, grid_orders[i].price>> :
               i \in 1 .. Len(grid_orders) } = C8_Expected
        /\ Len(grid_orders) = Cardinality(C8_Expected)
        /\ place_calls = Cardinality(C8_Expected)
        /\ ~dry_run =>
             /\ Len(venue) = Cardinality(C8_Expected)
             /\ { <<venue[k].side, venue[k].price>> : k \in 1 .. Len(venue) }
                  = C8_Expected
        /\ (args.lower = 100 * Unit /\ args.upper = 120 * Unit /\ args.levels = 4
            /\ current_price = 110 * Unit) =>
             /\ Len(grid_orders) = 4
             /\ grid_orders[1].side = "BUY" /\ grid_orders[1].price = 100 * Unit
             /\ grid_orders[2].side = "BUY" /\ Near(grid_orders[2].price, 10667)
             /\ grid_orders[3].side = "SELL" /\ Near(grid_orders[3].price, 11333)
             /\ grid_orders[4].side = "SELL" /\ grid_orders[4].price = 120 * Unit

\* the scenario of the claim has been initialized at the venue
C8_Witness ==
    /\ pc = "loop"
    /\ cycle_count = 0
    /\ ~place_failed
    /\ ~dry_run
    /\ args.lower = 100 * Unit /\ args.upper = 120 * Unit /\ args.levels = 4
    /\ current_price = 110 * Unit
    /\ Len(venue) = 4

AllLevels == buy_levels \o sell_levels

\* C9: for valid inputs the grid has grid_levels levels, strictly
\* increasing, the first lower_price and the last upper_price, spaced by
\* (upper_price - lower_price) / (grid_levels - 1) up to the rounding of a
\* float, the grid_levels \div 2 lowest of them BUY levels and the rest SELL
C9_GridLevels ==
    pc = "ready" =>
        /\ Len(AllLevels) = grid_levels
        /\ \A i \in 1 .. Len(AllLevels) - 1 : AllLevels[i] < AllLevels[i + 1]
        /\ AllLevels[1] = lower_price
        /\ AllLevels[Len(AllLevels)] = upper_price
        /\ \A i \in 1 .. Len(AllLevels) - 1 :
               Abs((grid_levels - 1) * (AllLevels[i + 1] - AllLevels[i])
                   - (upper_price - lower_price))
                 <= 4 * (grid_levels - 1) * Ulp(upper_price)
        /\ Len(buy_levels) = grid_levels \div 2
        /\ Len(sell_levels) = grid_levels - grid_levels \div 2

\* C10: a cycle whose reference price is outside [lower_price, upper_price]
\* has printed a warning by the time it goes to sleep
C10_WarnsWhenOutOfRange ==
    pc = "sleep" => (OutOfRange(current_price) => warned)

(***************************************************************************)
(* The OCO pair: validate_oco_prices, place_oco_order, main (oco.py)       *)
(***************************************************************************)
\* polls monitor_orders makes before its duration is over
MonitoringDuration == 2
\* the clock stops here
MaxClock == 6

\* float comparisons: false when either side is nan
FLe(a, b) == a # NaN /\ b # NaN /\ a <= b
FGe(a, b) == a # NaN /\ b # NaN /\ a >= b

validate_oco_prices(current, take_profit_price, stop_loss_price, side) ==
    IF side = "SELL"
    THEN /\ ~FLe(take_profit_price, current)
         /\ ~FGe(stop_loss_price, current)
    ELSE /\ ~FGe(take_profit_price, current)
         /\ ~FLe(stop_loss_price, current)

\* the process ends: its daemon thread ends with it
ProcessExit ==
    /\ mon_pc' = IF mon_pc \in {"off", "done"} THEN mon_pc ELSE "killed"
    /\ mon_exit' = IF mon_pc \in {"off", "done"} THEN mon_exit ELSE "killed"

\* validate_symbol, validate_side, validate_quantity pass; validate_price
OcoValidate ==
    /\ oco_pc = "start"
    /\ oco_pc' = IF BadPrice(oco_args.take_profit) \/ BadPrice(oco_args.stop_loss)
                 THEN "failed" ELSE "price"
    /\ UNCHANGED <<oco_args, oco_price, oco_valid, create_calls, tp_order,
                   sl_order, mon_pc, tp_status, sl_status, start_time, wake,
                   join_start, oco_now, oco_cancels, mon_exit>>
    /\ UNCHANGED notoco

\* get_current_price, validate_oco_prices and the dry-run return
OcoGetPrice ==
    /\ oco_pc = "price"
    /\ \/ /\ oco_pc' = "failed"
          /\ UNCHANGED <<oco_price, oco_valid>>
       \/ \E p \in OcoRefPrices :
            /\ oco_price' = p
            /\ oco_valid' = validate_oco_prices(p, validate_price(oco_args.take_profit),
                                                validate_price(oco_args.stop_loss),
                                                oco_args.side)
            /\ oco_pc' = IF ~oco_valid' THEN "failed"
                         ELSE IF oco_args.dry_run THEN "exit"
                         ELSE "place_tp"
    /\ UNCHANGED <<oco_args, create_calls, tp_order, sl_order, mon_pc, tp_status,
                   sl_status, start_time, wake, join_start, oco_now, oco_cancels,
                   mon_exit>>
    /\ UNCHANGED notoco

\* tp_order = client.futures_create_order(...)
OcoPlaceTp ==
    /\ oco_pc = "place_tp"
    /\ create_calls' = create_calls + 1
    /\ \/ oco_pc' = "place_sl" /\ tp_order' = "NEW"
       \/ oco_pc' = "failed" /\ tp_order' = tp_order
    /\ UNCHANGED <<oco_args, oco_price, oco_valid, sl_order, mon_pc, tp_status,
                   sl_status, start_time, wake, join_start, oco_now, oco_cancels,
                   mon_exit>>
    /\ UNCHANGED notoco

\* sl_order = client.futures_create_order(...)
OcoPlaceSl ==
    /\ oco_pc = "place_sl"
    /\ create_calls' = create_calls + 1
    /\ \/ oco_pc' = "start_monitor" /\ sl_order' = "NEW"
       \/ oco_pc' = "failed" /\ sl_order' = sl_order
    /\ UNCHANGED <<oco_args, oco_price, oco_valid, tp_order, mon_pc, tp_status,
                   sl_status, start_time, wake, join_start, oco_now, oco_cancels,
                   mon_exit>>
    /\ UNCHANGED notoco

\* monitor_thread.start() and the return to main()
OcoStartMonitor ==
    /\ oco_pc = "start_monitor"
    /\ mon_pc' = "test"
    /\ start_time' = oco_now
    /\ oco_pc' = "returned"
    /\ UNCHANGED <<oco_args, oco_price, oco_valid, create_calls, tp_order,
                   sl_order, tp_status, sl_status, wake, join_start, oco_now,
                   oco_cancels, mon_exit>>
    /\ UNCHANGED notoco

\* main() reaches result['monitor_thread'].join(args.monitor_time)
OcoJoin ==
    /\ oco_pc = "returned"
    /\ oco_pc' = "join"
    /\ join_start' = oco_now
    /\ UNCHANGED <<oco_args, oco_price, oco_valid, create_calls, tp_order,
                   sl_order, mon_pc, tp_status, sl_status, start_time, wake,
                   oco_now, oco_cancels, mon_exit>>
    /\ UNCHANGED notoco

\* a join that waits for the thread however long it runs
JoinReturnsWhenMonitorEnds == mon_pc = "done"

\* join(timeout) returns when the thread has ended or the timeout is over
JoinReturns ==
    \/ mon_pc = "done"
    \/ oco_now - join_start >= oco_args.monitor_time

\* join returns and main() runs sys.exit(0)
OcoJoinReturn ==
    /\ oco_pc = "join"
    /\ JoinReturns
    /\ oco_pc' = "exit"
    /\ ProcessExit
    /\ UNCHANGED <<oco_args, oco_price, oco_valid, create_calls, tp_order,
                   sl_order, tp_status, sl_status, start_time, wake, join_start,
                   oco_now, oco_cancels>>
    /\ UNCHANGED notoco

\* Ctrl+C while main() waits in join
OcoInterrupt ==
    /\ oco_pc = "join"
    /\ oco_pc' = "exit"
    /\ ProcessExit
    /\ UNCHANGED <<oco_args, oco_price, oco_valid, create_calls, tp_order,
                   sl_order, tp_status, sl_status, start_time, wake, join_start,
                   oco_now, oco_cancels>>
    /\ UNCHANGED notoco

(***************************************************************************)
(* monitor_orders, on its own thread                                       *)
(***************************************************************************)
\* a loop that never looks at the clock
StillMonitoringForever == TRUE

\* while time.time() - start_time < monitoring_duration
StillMonitoring == oco_now - start_time < MonitoringDuration

MonTest ==
    /\ mon_pc = "test"
    /\ IF StillMonitoring
       THEN mon_pc' = "get_tp" /\ mon_exit' = mon_exit
       ELSE mon_pc' = "done" /\ mon_exit' = "timeout"
    /\ UNCHANGED <<oco_args, oco_pc, oco_price, oco_valid, create_calls, tp_order,
                   sl_order, tp_status, sl_status, start_time, wake, join_start,
                   oco_now, oco_cancels>>
    /\ UNCHANGED notoco

\* tp_status = client.futures_get_order(...): an exception ends monitor_orders
MonGetTp ==
    /\ mon_pc = "get_tp"
    /\ \/ mon_pc' = "get_sl" /\ tp_status' = tp_order /\ mon_exit' = mon_exit
       \/ mon_pc' = "done" /\ tp_status' = tp_status /\ mon_exit' = "error"
    /\ UNCHANGED <<oco_args, oco_pc, oco_price, oco_valid, create_calls, tp_order,
                   sl_order, sl_status, start_time, wake, join_start, oco_now,
                   oco_cancels>>
    /\ UNCHANGED notoco

\* a monitor that goes on polling after a failed status query
MonGetSlGoesOn ==
    /\ mon_pc = "get_sl"
    /\ \/ mon_pc' = "decide" /\ sl_status' = sl_order /\ mon_exit' = mon_exit
       \/ mon_pc' = "test" /\ sl_status' = sl_status /\ mon_exit' = "error"
    /\ UNCHANGED <<oco_args, oco_pc, oco_price, oco_valid, create_calls, tp_order,
                   sl_order, tp_status, start_time, wake, join_start, oco_now,
                   oco_cancels>>
    /\ UNCHANGED notoco

\* sl_status = client.futures_get_order(...)
MonGetSl ==
    /\ mon_pc = "get_sl"
    /\ \/ mon_pc' = "decide" /\ sl_status' = sl_order /\ mon_exit' = mon_exit
       \/ mon_pc' = "done" /\ sl_status' = sl_status /\ mon_exit' = "error"
    /\ UNCHANGED <<oco_args, oco_pc, oco_price, oco_valid, create_calls, tp_order,
                   sl_order, tp_status, start_time, wake, join_start, oco_now,
                   oco_cancels>>
    /\ UNCHANGED notoco

\* client.futures_cancel_order inside try / bare except: the venue cancels
\* a live order unless the call fails, and refuses any other
CancelSl ==
    \/ /\ sl_order = "NEW"
       /\ sl_order' = "CANCELED"
       /\ oco_cancels' = Append(oco_cancels, [leg |-> "sl", ok |-> TRUE])
    \/ /\ sl_order' = sl_order
       /\ oco_cancels' = Append(oco_cancels, [leg |-> "sl", ok |-> FALSE])

CancelTp ==
    \/ /\ tp_order = "NEW"
       /\ tp_order' = "CANCELED"
       /\ oco_cancels' = Append(oco_cancels, [leg |-> "tp", ok |-> TRUE])
    \/ /\ tp_order' = tp_order
       /\ oco_cancels' = Append(oco_cancels, [leg |-> "tp", ok |-> FALSE])

\* an external end that also cancels the other leg
ExternalExitCancelsSibling ==
    /\ mon_pc' = "done"
    /\ mon_exit' = "external"
    /\ IF tp_status \in {"CANCELED", "EXPIRED"}
       THEN CancelSl /\ tp_order' = tp_order
       ELSE CancelTp /\ sl_order' = sl_order
    /\ wake' = wake

\* "One or both OCO orders were cancelled externally": break
ExternalExit ==
    /\ mon_pc' = "done"
    /\ mon_exit' = "external"
    /\ UNCHANGED <<tp_order, sl_order, oco_cancels, wake>>

\* the three ifs of the loop body and time.sleep(10)
MonDecide ==
    /\ mon_pc = "decide"
    /\ IF tp_status = "FILLED"
       THEN /\ CancelSl
            /\ mon_pc' = "done"
            /\ mon_exit' = "tp_filled"
            /\ UNCHANGED <<tp_order, wake>>
       ELSE IF sl_status = "FILLED"
       THEN /\ CancelTp
            /\ mon_pc' = "done"
            /\ mon_exit' = "sl_filled"
            /\ UNCHANGED <<sl_order, wake>>
       ELSE IF \/ tp_status \in {"CANCELED", "EXPIRED"}
               \/ sl_status \in {"CANCELED", "EXPIRED"}
       THEN ExternalExit
       ELSE /\ mon_pc' = "sleep"
            /\ wake' = oco_now + 1
            /\ UNCHANGED <<tp_order, sl_order, oco_cancels, mon_exit>>
    /\ UNCHANGED <<oco_args, oco_pc, oco_price, oco_valid, create_calls, tp_status,
                   sl_status, start_time, join_start, oco_now>>
    /\ UNCHANGED notoco

\* time.sleep(10) returns
MonWake ==
    /\ mon_pc = "sleep"
    /\ oco_now >= wake
    /\ mon_pc' = "test"
    /\ UNCHANGED <<oco_args, oco_pc, oco_price, oco_valid, create_calls, tp_order,
                   sl_order, tp_status, sl_status, start_time, wake, join_start,
                   oco_now, oco_cancels, mon_exit>>
    /\ UNCHANGED notoco

\* time passes while the monitor sleeps or main() waits in join
OcoTick ==
    /\ oco_now < MaxClock
    /\ \/ mon_pc = "sleep" /\ oco_now < wake
       \/ oco_pc = "join" /\ ~JoinReturns
    /\ oco_now' = oco_now + 1
    /\ UNCHANGED <<oco_args, oco_pc, oco_price, oco_valid, create_calls, tp_order,
                   sl_order, mon_pc, tp_status, sl_status, start_time, wake,
                   join_start, oco_cancels, mon_exit>>
    /\ UNCHANGED notoco

\* the venue fills a live leg, or it expires or is cancelled by someone else
OcoVenue ==
    /\ \E s \in {"FILLED", "CANCELED", "EXPIRED"} :
        \/ tp_order = "NEW" /\ tp_order' = s /\ sl_order' = sl_order
        \/ sl_order = "NEW" /\ sl_order' = s /\ tp_order' = tp_order
    /\ UNCHANGED <<oco_args, oco_pc, oco_price, oco_valid, create_calls, mon_pc,
                   tp_status, sl_status, start_time, wake, join_start, oco_now,
                   oco_cancels, mon_exit>>
    /\ UNCHANGED notoco

OcoCallerStep ==
    \/ OcoValidate
    \/ OcoGetPrice
    \/ OcoPlaceTp
    \/ OcoPlaceSl
    \/ OcoStartMonitor
    \/ OcoJoin
    \/ OcoJoinReturn

OcoMonitorStep ==
    \/ MonTest
    \/ MonGetTp
    \/ MonGetSl
    \/ MonDecide
    \/ MonWake

OcoInit == GridOff /\ TwapOff /\ PlaceOff /\ ValidatorsOff /\ OcoInitWith(OcoArgs)

OcoNext ==
    \/ OcoCallerStep
    \/ OcoMonitorStep
    \/ OcoTick
    \/ OcoVenue
    \/ OcoInterrupt

SpecOco == OcoInit /\ [][OcoNext]_vars

\* both threads run and the clock advances; fills and Ctrl+C may never come
SpecOcoLive ==
    OcoInit /\ [][OcoNext]_vars
    /\ WF_vars(OcoCallerStep) /\ WF_vars(OcoMonitorStep) /\ WF_vars(OcoTick)

\* the calling thread runs and the clock advances, whatever the monitor does
SpecOcoCaller ==
    OcoInit /\ [][OcoNext]_vars /\ WF_vars(OcoCallerStep) /\ WF_vars(OcoTick)

\* place_oco_order on a wider set of prices, up to the start of the monitor
OcoPricesInit ==
    GridOff /\ TwapOff /\ PlaceOff /\ ValidatorsOff /\ OcoInitWith(OcoPriceArgs)

OcoPricesNext == OcoValidate \/ OcoGetPrice \/ OcoPlaceTp \/ OcoPlaceSl

SpecOcoPrices == OcoPricesInit /\ [][OcoPricesNext]_vars

(***************************************************************************)
(* Claims about the OCO pair                                               *)
(***************************************************************************)
\* the step is the loop body of monitor_orders
MonDecides == mon_pc = "decide" /\ mon_pc' \in {"done", "sleep"}

\* the step issues a futures_cancel_order for the leg
CancelIssued(leg) ==
    \E i \in (Len(oco_cancels) + 1) .. Len(oco_cancels') : oco_cancels'[i].leg = leg

\* the cancel calls issued so far for the leg
CancelCount(leg) ==
    Cardinality({ i \in 1 .. Len(oco_cancels) : oco_cancels[i].leg = leg })

\* C11: a poll that observes the take-profit order FILLED issues a cancel
\* for the stop-loss order, a poll that observes the stop-loss order FILLED
\* issues a cancel for the take-profit order, and in both cases the
\* monitor ends.
C11_FillCancelsSibling ==
    [][ MonDecides =>
          /\ tp_status = "FILLED" => (CancelIssued("sl") /\ mon_pc' = "done")
          /\ sl_status = "FILLED" => (CancelIssued("tp") /\ mon_pc' = "done") ]_vars

\* C12: when one poll observes both legs FILLED the monitor issues exactly
\* one cancel per leg and ends normally, whatever the venue answers.
C12_BothFilledOneCancelPerLeg ==
    (mon_pc = "done" /\ tp_status = "FILLED" /\ sl_status = "FILLED") =>
        /\ CancelCount("tp") = 1
        /\ CancelCount("sl") = 1
        /\ mon_exit # "error"

\* C13: when the monitor ends because a leg was FILLED or was terminated
\* externally, no leg is left live at the venue.
C13_SiblingNotLeftLive ==
    (mon_pc = "done" /\ mon_exit \in {"tp_filled", "sl_filled", "external"}) =>
        (tp_order # "NEW" /\ sl_order # "NEW")

\* the poll read a leg CANCELED or EXPIRED and no leg FILLED
ObservedExternalOnly ==
    /\ tp_status # "FILLED"
    /\ sl_status # "FILLED"
    /\ \/ tp_status \in {"CANCELED", "EXPIRED"}
       \/ sl_status \in {"CANCELED", "EXPIRED"}

\* C14: a poll that observes a leg CANCELED or EXPIRED and no leg FILLED
\* ends the monitor, which issues no cancel and changes nothing at the
\* venue.
C14_ExternalEndIsPassive ==
    [][ (MonDecides /\ ObservedExternalOnly) =>
          /\ mon_pc' = "done"
          /\ mon_exit' = "external"
          /\ oco_cancels' = oco_cancels
          /\ create_calls' = create_calls
          /\ tp_order' = tp_order
          /\ sl_order' = sl_order ]_vars

\* the monitor ended after an external termination, the other leg still live
C14_Witness ==
    /\ mon_pc = "done"
    /\ mon_exit = "external"
    /\ oco_cancels = <<>>
    /\ (tp_order = "NEW" \/ sl_order = "NEW")

\* C15: supervision always terminates; no poll starts once the monitoring
\* duration has elapsed, and the exit on that duration cancels nothing.
C15_SupervisionTerminates ==
    /\ (mon_pc = "test") ~> (mon_pc \in {"done", "killed"})
    /\ [][ (mon_pc = "test" /\ mon_pc' = "get_tp") =>
             oco_now - start_time < MonitoringDuration ]_vars
    /\ [](mon_exit = "timeout" =>
            (oco_cancels = <<>> /\ oco_now - start_time >= MonitoringDuration))

\* the monitor ran out of time with both legs live
C15_Witness ==
    /\ mon_pc = "done"
    /\ mon_exit = "timeout"
    /\ tp_order = "NEW"
    /\ sl_order = "NEW"

\* a > b on floats
FGt(a, b) == a # NaN /\ b # NaN /\ a > b

\* takeProfit > current > stopLoss for SELL, reversed for BUY
PriceRelationship(current, tp, sl, side) ==
    \/ side = "SELL" /\ FGt(tp, current) /\ FGt(current, sl)
    \/ side = "BUY" /\ FGt(current, tp) /\ FGt(sl, current)

\* C16: when the price relationship is violated at the fetched reference
\* price, place_oco_order makes no futures_create_order call.
C16_NoOrderOnViolatedPrices ==
    (oco_price # 0 /\ ~PriceRelationship(oco_price, oco_args.take_profit,
                                         oco_args.stop_loss, oco_args.side))
        => create_calls = 0

\* C17: validate_oco_prices returns true exactly when the price
\* relationship holds.
C17_ValidateIffRelationship ==
    oco_price # 0 =>
        (oco_valid <=> PriceRelationship(oco_price, oco_args.take_profit,
                                         oco_args.stop_loss, oco_args.side))

\* C18: once place_oco_order has started the monitor, main() returns from
\* it, joins and reaches its exit whatever the monitor does: the caller
\* never depends on a step of the monitor.
C18_CallerDoesNotWaitForMonitor ==
    (oco_pc = "start_monitor") ~> (oco_pc = "exit")

\* join's timeout is over while the monitor is still in its loop
C18_Witness ==
    /\ oco_pc = "join"
    /\ oco_now - join_start >= oco_args.monitor_time
    /\ mon_pc \in {"test", "get_tp", "get_sl", "decide", "sleep"}

(***************************************************************************)
(* The TWAP run: calculate_twap_schedule, execute_twap_order,              *)
(* execute_twap_strategy, main (twap.py).  Gateway calls take no time:     *)
(* the clock moves in time.sleep only.                                     *)
(***************************************************************************)
\* main() allows at most MaxTwapOrders orders
MaxTwapOrders == 100
\* the largest quantity validate_quantity accepts
MaxQuantity == 1000000

\* a plan that sends the whole quantity in every order
quantity_per_order_undivided(total_quantity, num_orders) == total_quantity

quantity_per_order(total_quantity, num_orders) == Fl(total_quantity, num_orders)

interval_seconds(duration_minutes, num_orders) ==
    Fl(duration_minutes * 60 * Unit, num_orders)

\* a schedule whose first delay is one interval
calculate_twap_schedule_from_one(total_quantity, duration_minutes, num_orders) ==
    [i \in 1 .. num_orders |->
        [quantity |-> quantity_per_order(total_quantity, num_orders),
         delay |-> Fl(i * interval_seconds(duration_minutes, num_orders), 1)]]

\* schedule[i] is the code's entry i - 1: delay = i * interval_seconds
calculate_twap_schedule(total_quantity, duration_minutes, num_orders) ==
    [i \in 1 .. num_orders |->
        [quantity |-> quantity_per_order(total_quantity, num_orders),
         delay |-> Fl((i - 1) * interval_seconds(duration_minutes, num_orders), 1)]]

\* the float literal 0.001
Thousandth == Fl(QUnit, 1000)

\* what validate_quantity raises ValueError for: qty <= 0, qty > 1000000
\* (compared without forming 1000000 * QUnit), qty < 0.001, all three
\* false of nan
BadQuantity(q) ==
    /\ q # NaN
    /\ \/ q <= 0
       \/ q \div QUnit > MaxQuantity
       \/ (q \div QUnit = MaxQuantity /\ q % QUnit > 0)
       \/ q < Thousandth

\* the argument checks of main(), the last one args.quantity / args.orders < 0.001
MainRejects(a) ==
    \/ a.duration <= 0
    \/ a.orders <= 0
    \/ a.orders > MaxTwapOrders
    \/ Fl(a.quantity, a.orders) < Thousandth

\* the ValueErrors of execute_twap_strategy, the last one
\* num_orders > total_quantity * 1000
StrategyRejects(a) ==
    \/ BadQuantity(a.quantity)
    \/ a.duration <= 0
    \/ a.orders <= 0
    \/ a.orders * QUnit > Fl(a.quantity * 1000, 1)

\* main(): the argument checks and, unless dry_run, the "Continue? (y/N)"
TwapMain ==
    /\ twap_pc = "main"
    /\ IF MainRejects(twap_args)
       THEN twap_pc' = "exit"
       ELSE IF twap_args.dry_run
       THEN twap_pc' = "validate"
       ELSE twap_pc' \in {"validate", "exit"}
    /\ UNCHANGED <<twap_args, schedule, initial_price, twap_i, successful_orders,
                   total_executed_quantity, total_cost, avg_price, twap_now,
                   twap_start, twap_log, twap_creates, twap_result>>
    /\ UNCHANGED nottwap

\* the validation of execute_twap_strategy and calculate_twap_schedule
TwapValidate ==
    /\ twap_pc = "validate"
    /\ IF StrategyRejects(twap_args)
       THEN /\ twap_pc' = "exit"
            /\ twap_result' = "None"
            /\ schedule' = schedule
       ELSE /\ twap_pc' = "initial_price"
            /\ twap_result' = twap_result
            /\ schedule' = calculate_twap_schedule(twap_args.quantity,
                                                   twap_args.duration, twap_args.orders)
    /\ UNCHANGED <<twap_args, initial_price, twap_i, successful_orders,
                   total_executed_quantity, total_cost, avg_price, twap_now,
                   twap_start, twap_log, twap_creates>>
    /\ UNCHANGED nottwap

\* initial_price = get_current_price(...), the dry-run return, start_time
TwapInitialPrice ==
    /\ twap_pc = "initial_price"
    /\ \/ /\ twap_pc' = "exit"
          /\ twap_result' = "None"
          /\ UNCHANGED <<initial_price, twap_i, twap_start>>
       \/ \E p \in TwapPrices :
            /\ initial_price' = p
            /\ IF twap_args.dry_run
               THEN /\ twap_pc' = "exit"
                    /\ twap_result' = "DRY_RUN"
                    /\ UNCHANGED <<twap_i, twap_start>>
               ELSE /\ twap_pc' = "wait"
                    /\ twap_result' = twap_result
                    /\ twap_i' = 1
                    /\ twap_start' = twap_now
    /\ UNCHANGED <<twap_args, schedule, successful_orders, total_executed_quantity,
                   total_cost, avg_price, twap_now, twap_log, twap_creates>>
    /\ UNCHANGED nottwap

\* execute_twap_order: if delay > 0: time.sleep(delay)
TwapWait ==
    /\ twap_pc = "wait"
    /\ twap_now' = twap_now + schedule[twap_i].delay
    /\ twap_pc' = "order"
    /\ UNCHANGED <<twap_args, schedule, initial_price, twap_i, successful_orders,
                   total_executed_quantity, total_cost, avg_price, twap_start,
                   twap_log, twap_creates, twap_result>>
    /\ UNCHANGED nottwap

\* a loop that stops at the first failed order
AfterOrderStopOnFailure(ok) ==
    IF ok /\ twap_i < Len(schedule) THEN "wait" ELSE "final_price"

\* the for loop goes on to the next entry of the schedule, if any
AfterOrder(ok) ==
    IF twap_i < Len(schedule) THEN "wait" ELSE "final_price"

\* execute_twap_order after its sleep, and the loop body that takes its
\* result: the price query fails, the order fails, or both succeed
TwapOrder ==
    /\ twap_pc = "order"
    /\ \/ /\ twap_log' = Append(twap_log, [slice |-> twap_i, time |-> twap_now,
                                           outcome |-> "price_failed", price |-> 0])
          /\ twap_pc' = AfterOrder(FALSE)
          /\ UNCHANGED <<twap_creates, successful_orders, total_executed_quantity,
                         total_cost>>
       \/ /\ twap_log' = Append(twap_log, [slice |-> twap_i, time |-> twap_now,
                                           outcome |-> "order_failed", price |-> 0])
          /\ twap_pc' = AfterOrder(FALSE)
          /\ twap_creates' = twap_creates + 1
          /\ UNCHANGED <<successful_orders, total_executed_quantity, total_cost>>
       \/ \E p \in TwapPrices :
            /\ twap_log' = Append(twap_log, [slice |-> twap_i, time |-> twap_now,
                                             outcome |-> "ok", price |-> p])
            /\ twap_pc' = AfterOrder(TRUE)
            /\ twap_creates' = twap_creates + 1
            /\ successful_orders' = successful_orders + 1
            /\ total_executed_quantity' =
                   Fl(total_executed_quantity + schedule[twap_i].quantity, 1)
            /\ total_cost' =
                   Fl(total_cost + FlMul(schedule[twap_i].quantity, p, QUnit), 1)
    /\ twap_i' = twap_i + 1
    /\ UNCHANGED <<twap_args, schedule, initial_price, avg_price, twap_now,
                   twap_start, twap_result>>
    /\ UNCHANGED nottwap

\* an average over the planned quantity, whatever was executed
average_price_of_plan(cost, executed) ==
    IF executed > 0 THEN FlMul(cost, QUnit, twap_args.quantity) ELSE 0

\* avg_price = total_cost / total_executed_quantity, 0 if nothing was executed
average_price(cost, executed) ==
    IF executed > 0 THEN FlMul(cost, QUnit, executed) ELSE 0

\* avg_price, final_price = get_current_price(...) and the report
TwapFinalPrice ==
    /\ twap_pc = "final_price"
    /\ avg_price' = average_price(total_cost, total_executed_quantity)
    /\ twap_pc' = "exit"
    /\ twap_result' \in {"COMPLETED", "None"}
    /\ UNCHANGED <<twap_args, schedule, initial_price, twap_i, successful_orders,
                   total_executed_quantity, total_cost, twap_now, twap_start,
                   twap_log, twap_creates>>
    /\ UNCHANGED nottwap

\* the command lines, and the same arguments passed to execute_twap_strategy
\* by other code (those that main() would stop at its order limit left out)
TwapInit ==
    /\ GridOff
    /\ OcoOff
    /\ PlaceOff
    /\ ValidatorsOff
    /\ \/ TwapInitWith(TwapArgs, {"main"})
       \/ TwapInitWith({ a \in TwapArgs : a.orders <= MaxTwapOrders }, {"validate"})

TwapNext ==
    \/ TwapMain
    \/ TwapValidate
    \/ TwapInitialPrice
    \/ TwapWait
    \/ TwapOrder
    \/ TwapFinalPrice

SpecTwap == TwapInit /\ [][TwapNext]_vars

\* runs of seven orders: python src/advanced/twap.py BTCUSDT BUY 1.0 1 7 and
\* the same for 1.5
TwapLongInit ==
    /\ GridOff
    /\ OcoOff
    /\ PlaceOff
    /\ ValidatorsOff
    /\ TwapInitWith({ TwapArg(q * (QUnit \div 2), 1, 7, FALSE) : q \in {2, 3} }, {"main"})

SpecTwapLong == TwapLongInit /\ [][TwapNext]_vars

(***************************************************************************)
(* Claims about the TWAP run                                               *)
(***************************************************************************)
\* C19: every slice is placed at its scheduled delay after the start of the
\* strategy: slice k (0-based) at offset k * (duration * 60 / orders).
C19_SliceAtScheduledOffset ==
    \A k \in 1 .. Len(twap_log) :
        twap_log[k].time - twap_start = schedule[twap_log[k].slice].delay

\* the slices so far whose price query and order both succeeded
Succeeded ==
    Cardinality({ k \in 1 .. Len(twap_log) : twap_log[k].outcome = "ok" })

\* C20: the slices are attempted once each, in plan order, one at a time,
\* whatever failed before; after the loop every slice has been attempted
\* and successful_orders counts the slices that succeeded.
C20_EverySliceAttemptedOnce ==
    /\ \A k \in 1 .. Len(twap_log) : twap_log[k].slice = k
    /\ twap_pc \in {"wait", "order"} => Len(twap_log) = twap_i - 1
    /\ (twap_pc = "final_price" \/ twap_result = "COMPLETED") =>
          /\ Len(twap_log) = twap_args.orders
          /\ successful_orders = Succeeded

\* five slices, the third failed: the report has 4 of 5
C20_Witness ==
    /\ twap_result = "COMPLETED"
    /\ twap_args.orders = 5
    /\ Len(twap_log) = 5
    /\ twap_log[3].outcome # "ok"
    /\ successful_orders = 4

\* the dict execute_twap_strategy returns after the loop (twap.py:227-238),
\* without the prices and the duration
TwapReport ==
    [status |-> twap_result,
     successful_orders |-> successful_orders,
     total_orders |-> twap_args.orders,
     total_executed_quantity |-> total_executed_quantity,
     average_price |-> avg_price,
     total_cost |-> total_cost,
     results |-> Succeeded]

\* C21: a run in which at least one slice was executed ends with the
\* report (status COMPLETED, successful_orders of total_orders), never with
\* the failure result None, whatever Gateway call failed.
C21_ExecutedRunIsReported ==
    (twap_pc = "exit" /\ successful_orders >= 1) => TwapReport.status = "COMPLETED"

\* the slices so far that succeeded
OkSlices == { k \in 1 .. Len(twap_log) : twap_log[k].outcome = "ok" }

\* the spacing of the floats around a slice quantity: every slice quantity
\* is a whole number of these
QtyStep == Ulp(quantity_per_order(twap_args.quantity, twap_args.orders))

\* the exact sum of quantity over the succeeded slices among the first k
\* attempts, counted in QtyStep
ExecutedQty[k \in 0 .. MaxTwapOrders] ==
    IF k = 0 THEN 0
    ELSE ExecutedQty[k - 1] +
         (IF k \in OkSlices THEN schedule[twap_log[k].slice].quantity \div QtyStep ELSE 0)

\* the exact sum of quantity * price over the succeeded slices among the
\* first k attempts, quantity counted in QtyStep
ExecutedCost[k \in 0 .. MaxTwapOrders] ==
    IF k = 0 THEN 0
    ELSE ExecutedCost[k - 1] +
         (IF k \in OkSlices
          THEN (schedule[twap_log[k].slice].quantity \div QtyStep) * twap_log[k].price
          ELSE 0)

\* C22: when at least one slice succeeded, the reported average price is
\* the sum of quantity * price over the succeeded slices divided by the sum
\* of quantity over the succeeded slices, to the rounding of the float
\* operations (within 2^-(Precision - 4) of the exact quotient); the failed
\* slices are in neither sum.
C22_AverageOverSucceeded ==
    (twap_result = "COMPLETED" /\ successful_orders >= 1) =>
        Abs(TwapReport.average_price * ExecutedQty[Len(twap_log)]
            - ExecutedCost[Len(twap_log)])
          <= ExecutedCost[Len(twap_log)] \div 2 ^ (Precision - 4)

\* a report over two slices executed at different prices and a failed one
C22_Witness ==
    /\ twap_result = "COMPLETED"
    /\ \E j, k \in OkSlices : twap_log[j].price # twap_log[k].price
    /\ \E k \in 1 .. Len(twap_log) : k \notin OkSlices

\* the fields of the report that are counts and amounts; status is the
\* only other field
ReportTotals ==
    {"successful_orders", "total_orders", "total_executed_quantity",
     "average_price", "total_cost", "results"}

\* C23: when no slice succeeded the average is computed without a division
\* and reported as 0, and the report says explicitly that nothing was
\* executed: in a field that is not a count or an amount, or by a status
\* other than the COMPLETED of a run that executed something.
C23_NothingExecutedIsFlagged ==
    (twap_pc = "exit" /\ twap_result \notin {"None", "DRY_RUN", "none"}
        /\ successful_orders = 0) =>
        /\ TwapReport.average_price = 0
        /\ \/ DOMAIN TwapReport \ ReportTotals # {"status"}
           \/ TwapReport.status # "COMPLETED"

(***************************************************************************)
(* The plan of a TWAP run on a wider set of inputs: main() and the         *)
(* validation and schedule of execute_twap_strategy.                       *)
(***************************************************************************)
\* quantities 0, 0.001 .. 0.012 and 1.0, durations of 0, 1 and 7 minutes,
\* 0 to 13 orders
PlanArgs ==
    { TwapArg(q, d, n, FALSE) :
        q \in { Fl(k * QUnit, 1000) : k \in 0 .. 12 } \cup { QUnit },
        d \in {0, 1, 7},
        n \in 0 .. 13 }

TwapPlanInit ==
    /\ GridOff
    /\ OcoOff
    /\ PlaceOff
    /\ ValidatorsOff
    /\ TwapInitWith(PlanArgs, {"main", "validate"})

TwapPlanNext == TwapMain \/ TwapValidate

SpecTwapPlan == TwapPlanInit /\ [][TwapPlanNext]_vars

\* the plan was accepted: the schedule is computed and no order is placed yet
PlanAccepted == twap_pc = "initial_price"

\* C24 as stated: the schedule of an accepted plan has orders entries of
\* one quantity whose sum is exactly the total quantity, entry i (from 0)
\* has exactly the delay i * duration * 60 / orders, the first delay is 0,
\* the delays do not decrease and none exceeds duration * 60.
C24_ScheduleExact ==
    PlanAccepted =>
        /\ Len(schedule) = twap_args.orders
        /\ \A i \in 1 .. Len(schedule) :
             /\ schedule[i].quantity = schedule[1].quantity
             /\ schedule[i].delay * twap_args.orders
                  = (i - 1) * twap_args.duration * 60 * Unit
             /\ schedule[i].delay <= twap_args.duration * 60 * Unit
             /\ i > 1 => schedule[i - 1].delay <= schedule[i].delay
        /\ schedule[1].delay = 0
        /\ twap_args.orders * schedule[1].quantity = twap_args.quantity

\* C24, amended: the same with the sum and the delays equal to the exact
\* values to the rounding of the float operations (within 2^-(Precision - 2)
\* of them).
C24_ScheduleWithinRounding ==
    PlanAccepted =>
        /\ Len(schedule) = twap_args.orders
        /\ \A i \in 1 .. Len(schedule) :
             /\ schedule[i].quantity = schedule[1].quantity
             /\ Abs(schedule[i].delay * twap_args.orders
                     - (i - 1) * twap_args.duration * 60 * Unit)
                  <= ((i - 1) * twap_args.duration * 60 * Unit) \div 2 ^ (Precision - 2)
             /\ schedule[i].delay <= twap_args.duration * 60 * Unit
             /\ i > 1 => schedule[i - 1].delay <= schedule[i].delay
        /\ schedule[1].delay = 0
        /\ Abs(twap_args.orders * schedule[1].quantity - twap_args.quantity)
             <= twap_args.quantity \div 2 ^ (Precision - 2)

\* 7 orders over 7 minutes whose quantities do not add up to the total
C24_Witness ==
    /\ PlanAccepted
    /\ twap_args.orders = 7
    /\ twap_args.duration = 7
    /\ 7 * schedule[1].quantity # twap_args.quantity

\* C25: a plan is accepted only if duration > 0, orders > 0 and
\* quantity / orders >= 0.001, so every slice of an accepted plan has a
\* quantity of at least 0.001; a rejected plan has placed no order.
C25_AcceptedSlicesTradable ==
    /\ PlanAccepted =>
          /\ twap_args.duration > 0
          /\ twap_args.orders > 0
          /\ twap_args.quantity * 1000 >= twap_args.orders * QUnit
          /\ \A i \in 1 .. Len(schedule) : schedule[i].quantity * 1000 >= QUnit
    /\ twap_result = "None" => twap_creates = 0

(***************************************************************************)
(* The direct placers: market_orders.py, limit_orders.py, stop_limit.py    *)
(***************************************************************************)
\* check_order_status polls at most max_checks times
MaxChecks == 5

FLt(a, b) == a # NaN /\ b # NaN /\ a < b

\* abs((limit_price - current_price) / current_price) * 100, in percent
price_diff_percent(current, limit) ==
    IF limit = NaN
    THEN NaN
    ELSE Fl(Fl(Fl(Abs(limit - current), 1) * Unit, current) * 100, 1)

\* validate_limit_price: False if the limit price is more than 50 % away
\* from the market price (the other two checks only log a warning)
validate_limit_price(current, limit, side) ==
    ~FGt(price_diff_percent(current, limit), 50 * Unit)

validate_stop_limit_prices(current, stop_price, limit_price, side) ==
    IF side = "BUY"
    THEN ~FLe(stop_price, current) /\ ~FLt(limit_price, stop_price)
    ELSE ~FGe(stop_price, current) /\ ~FGt(limit_price, stop_price)

\* a balance check that takes every balance as sufficient
check_account_balance_always_sufficient(balance, required_quantity, current, side) ==
    TRUE

\* check_account_balance once futures_account has answered with balance
check_account_balance(balance, required_quantity, current, side) ==
    IF side = "BUY"
    THEN ~(balance < FlMul(required_quantity, current, QUnit))
    ELSE TRUE

\* the ValueErrors of validate_quantity and validate_price at the head of
\* each placer (symbol and side are valid)
PlaceRejects(a) ==
    \/ BadQuantity(a.quantity)
    \/ a.kind = "limit" /\ BadPrice(a.price)
    \/ a.kind = "stop_limit" /\ (BadPrice(a.stop_price) \/ BadPrice(a.price))

\* the placer ends: its except clause, or a return
PlaceEnds(result) ==
    /\ pl_pc' = "exit"
    /\ pl_result' = result

\* validate_symbol .. validate_price
PlaceValidate ==
    /\ pl_pc = "start"
    /\ IF PlaceRejects(pl_args)
       THEN PlaceEnds("None")
       ELSE pl_pc' = "price" /\ pl_result' = pl_result
    /\ UNCHANGED <<pl_args, pl_price, pl_calls, available_balance>>
    /\ UNCHANGED notplace

\* the price checks are skipped
AfterPriceUnchecked(a, current) ==
    IF a.kind = "market" THEN "balance" ELSE "attempt"

\* what follows current_price = get_current_price(client, symbol)
AfterPrice(a, current) ==
    CASE a.kind = "market" -> "balance"
      [] a.kind = "limit" ->
            IF validate_limit_price(current, validate_price(a.price), a.side)
            THEN "attempt" ELSE "prompt"
      [] a.kind = "stop_limit" ->
            IF validate_stop_limit_prices(current, validate_price(a.stop_price),
                                          validate_price(a.price), a.side)
            THEN "attempt" ELSE "exit"

\* a faulty variant of PlaceGetPrice: a failed price query is ignored
PlaceGetPriceIgnoresFailure ==
    /\ pl_pc = "price"
    /\ pl_calls' = [pl_calls EXCEPT !.ticker = @ + 1]
    /\ \/ /\ pl_pc' = "attempt"
          /\ UNCHANGED <<pl_price, pl_result>>
       \/ \E p \in PlaceRefPrices :
            /\ pl_price' = p
            /\ IF AfterPrice(pl_args, p) = "exit"
               THEN PlaceEnds("None")
               ELSE pl_pc' = AfterPrice(pl_args, p) /\ pl_result' = pl_result
    /\ UNCHANGED <<pl_args, available_balance>>
    /\ UNCHANGED notplace

\* get_current_price and the price checks that follow it
PlaceGetPrice ==
    /\ pl_pc = "price"
    /\ pl_calls' = [pl_calls EXCEPT !.ticker = @ + 1]
    /\ \/ /\ PlaceEnds("None")
          /\ UNCHANGED pl_price
       \/ \E p \in PlaceRefPrices :
            /\ pl_price' = p
            /\ IF AfterPrice(pl_args, p) = "exit"
               THEN PlaceEnds("None")
               ELSE pl_pc' = AfterPrice(pl_args, p) /\ pl_result' = pl_result
    /\ UNCHANGED <<pl_args, available_balance>>
    /\ UNCHANGED notplace

\* check_account_balance: futures_account raises (False), or answers
PlaceBalance ==
    /\ pl_pc = "balance"
    /\ pl_calls' = [pl_calls EXCEPT !.account = @ + 1]
    /\ \/ PlaceEnds("None") /\ available_balance' = {}
       \/ \E b \in Balances :
            /\ available_balance' = {b}
            /\ IF check_account_balance(b, pl_args.quantity, pl_price, pl_args.side)
               THEN pl_pc' = "attempt" /\ pl_result' = pl_result
               ELSE PlaceEnds("None")
    /\ UNCHANGED <<pl_args, pl_price>>
    /\ UNCHANGED notplace

\* "Continue anyway? (y/N)": the user answers y, or anything else
PlacePrompt ==
    /\ pl_pc = "prompt"
    /\ \/ pl_pc' = "attempt" /\ pl_result' = pl_result
       \/ PlaceEnds("None")
    /\ UNCHANGED <<pl_args, pl_price, pl_calls, available_balance>>
    /\ UNCHANGED notplace

\* an order is sent whatever dry_run says
SendsOrderAlways(a) == TRUE

\* if dry_run: return the synthetic order
SendsOrder(a) == ~a.dry_run

\* a placer that sends the order once more when futures_create_order raised
PlaceAttemptRetries ==
    /\ pl_pc = "attempt"
    /\ IF SendsOrder(pl_args)
       THEN /\ pl_calls' = [pl_calls EXCEPT !.create = @ + 1]
            /\ \/ IF pl_calls.create = 0
                  THEN pl_pc' = "attempt" /\ pl_result' = pl_result
                  ELSE PlaceEnds("None")
               \/ /\ pl_result' = "NEW"
                  /\ pl_pc' = IF pl_args.kind = "limit" /\ pl_args.check_status
                                 /\ ~pl_args.dry_run
                              THEN "status" ELSE "exit"
       ELSE /\ PlaceEnds("DRY_RUN")
            /\ UNCHANGED pl_calls
    /\ UNCHANGED <<pl_args, pl_price, available_balance>>
    /\ UNCHANGED notplace

\* the dry-run return, or futures_create_order; main() of limit_orders.py
\* goes on to check_order_status if asked to
PlaceAttempt ==
    /\ pl_pc = "attempt"
    /\ IF SendsOrder(pl_args)
       THEN /\ pl_calls' = [pl_calls EXCEPT !.create = @ + 1]
            /\ \/ PlaceEnds("None")
               \/ /\ pl_result' = "NEW"
                  /\ pl_pc' = IF pl_args.kind = "limit" /\ pl_args.check_status
                                 /\ ~pl_args.dry_run
                              THEN "status" ELSE "exit"
       ELSE /\ PlaceEnds("DRY_RUN")
            /\ UNCHANGED pl_calls
    /\ UNCHANGED <<pl_args, pl_price, available_balance>>
    /\ UNCHANGED notplace

\* one futures_get_order of check_order_status: it raises, or the order is
\* in a final state, or it is still open and the loop sleeps and goes on
PlaceCheckStatus ==
    /\ pl_pc = "status"
    /\ pl_calls' = [pl_calls EXCEPT !.status = @ + 1]
    /\ \/ pl_pc' = "exit"
       \/ pl_pc' = IF pl_calls.status + 1 < MaxChecks THEN "status" ELSE "exit"
    /\ UNCHANGED <<pl_args, pl_price, pl_result, available_balance>>
    /\ UNCHANGED notplace

PlaceInit ==
    GridOff /\ OcoOff /\ TwapOff /\ ValidatorsOff /\ PlaceInitWith(PlaceArgs, "start")

PlaceNext ==
    \/ PlaceValidate
    \/ PlaceGetPrice
    \/ PlaceBalance
    \/ PlacePrompt
    \/ PlaceAttempt
    \/ PlaceCheckStatus

SpecPlace == PlaceInit /\ [][PlaceNext]_vars

(***************************************************************************)
(* One command of the package is run: the grid, the OCO pair, the TWAP     *)
(* run or a placer.  The commands that are not run are "absent".           *)
(***************************************************************************)
\* the grid command lines: those of the run, and three that __init__ rejects
CommandGridArgs ==
    LiveArgs \cup { Arg(Eighths(802), Eighths(800), 2, FALSE),
                    Arg(0, Eighths(802), 2, FALSE),
                    Arg(Eighths(800), Eighths(802), 1, FALSE) }

CommandInit ==
    LET GridAbsent ==
            GridInitAt({Arg(Eighths(800), Eighths(802), 2, TRUE)}, "absent")
        OcoAbsent ==
            OcoInitAt({OcoArg("SELL", OcoPrice(110), OcoPrice(90), TRUE, 1)}, "absent")
        TwapAbsent == TwapInitWith({TwapArg(QUnit \div 2, 1, 3, TRUE)}, {"absent"})
        PlaceAbsent ==
            PlaceInitWith({PlaceArg("market", "BUY", Hundredth, 0, 0, TRUE, FALSE)},
                          "absent")
    IN  /\ ValidatorsOff
        /\ \/ GridInitWith(CommandGridArgs) /\ OcoAbsent /\ TwapAbsent /\ PlaceAbsent
           \/ GridAbsent /\ OcoInitWith(OcoArgs) /\ TwapAbsent /\ PlaceAbsent
           \/ GridAbsent /\ OcoAbsent /\ TwapInitWith(TwapArgs, {"main"}) /\ PlaceAbsent
           \/ GridAbsent /\ OcoAbsent /\ TwapAbsent /\ PlaceInitWith(PlaceArgs, "start")

CommandNext == Next \/ OcoNext \/ TwapNext \/ PlaceNext

SpecCommands == CommandInit /\ [][CommandNext]_vars

(***************************************************************************)
(* validate_symbol and validate_side                                       *)
(***************************************************************************)
\* s.upper().strip()
normalise(s) ==
    LET upper(c) == CASE c = "b" -> "B" [] c = "t" -> "T" [] c = "u" -> "U"
                      [] c = "s" -> "S" [] c = "d" -> "D" [] c = "y" -> "Y"
                      [] c = "e" -> "E" [] c = "l" -> "L" [] OTHER -> c
        inked == { i \in 1 .. Len(s) : s[i] # " " }
        first == CHOOSE i \in inked : \A j \in inked : i <= j
        last  == CHOOSE i \in inked : \A j \in inked : j <= i
    IN  IF inked = {}
        THEN <<>>
        ELSE [i \in 1 .. last - first + 1 |-> upper(s[first + i - 1])]

\* what validate_symbol raises ValueError for: an empty string, no USDT at
\* the end, a character outside A-Z0-9 or nothing before USDT, fewer than
\* 6 characters
BadSymbol(symbol) ==
    LET sym == normalise(symbol)
        n   == Len(sym)
    IN  \/ symbol = <<>>
        \/ n < 4
        \/ SubSeq(sym, n - 3, n) # <<"U", "S", "D", "T">>
        \/ \E i \in 1 .. n : sym[i] \notin {"B", "T", "U", "S", "D", "Y", "E", "L", "1"}
        \/ n < 5
        \/ n < 6

\* what validate_side raises ValueError for
BadSide(side) ==
    \/ side = <<>>
    \/ normalise(side) \notin { <<"B", "U", "Y">>, <<"S", "E", "L", "L">> }

\* one call of a validator
Validate ==
    /\ val_result = "none"
    /\ val_result' =
          IF CASE val_args.validator = "symbol" -> BadSymbol(val_args.value)
               [] val_args.validator = "side" -> BadSide(val_args.value)
               [] val_args.validator = "quantity" -> BadQuantity(val_args.value)
               [] val_args.validator = "price" -> BadPrice(val_args.value)
          THEN "ValueError" ELSE "ok"
    /\ UNCHANGED val_args
    /\ UNCHANGED <<gridvars, ocovars, twapvars, placevars>>

ValidatorsInit ==
    /\ GridOff /\ OcoOff /\ TwapOff /\ PlaceOff
    /\ val_args \in ValidatorArgs
    /\ val_result = "none"

SpecValidators == ValidatorsInit /\ [][Validate]_vars

(***************************************************************************)
(* Claims about dry runs, validation and the first Gateway call            *)
(***************************************************************************)
\* C26: in a dry run no strategy sends a placement or a cancellation to the
\* venue and none queries an order's status; the only Gateway calls are
\* price and balance queries, and what is returned is synthetic: the grid
\* tracks DRY_RUN orders only, the other commands return DRY_RUN or fail.
C26_DryRunSendsNothing ==
    /\ (pc # "absent" /\ args.dry_run) =>
          /\ venue = <<>>
          /\ pc \notin {"check", "poll", "replace"}
          /\ \A i \in 1 .. Len(grid_orders) : grid_orders[i].order_id.dry
    /\ (oco_pc # "absent" /\ oco_args.dry_run) =>
          /\ create_calls = 0
          /\ oco_cancels = <<>>
          /\ mon_pc = "off"
          /\ tp_order = "NONE" /\ sl_order = "NONE"
    /\ (twap_pc # "absent" /\ twap_args.dry_run) =>
          /\ twap_creates = 0
          /\ twap_log = <<>>
          /\ twap_result \in {"none", "None", "DRY_RUN"}
    /\ (pl_pc # "absent" /\ pl_args.dry_run) =>
          /\ pl_calls.create = 0
          /\ pl_calls.status = 0
          /\ pl_result \in {"none", "None", "DRY_RUN"}

\* a dry run of the grid has placed its orders, run its cycles and
\* cancelled the orders in its teardown
C26_Witness ==
    /\ pc = "done"
    /\ args.dry_run
    /\ cycle_count > 0
    /\ Len(grid_orders) > 0
    /\ Len(cancel_log) = Len(grid_orders)

\* the validators at the head of the command reject its input
GridRejected == pc = "rejected"
OcoRejected ==
    /\ oco_pc = "failed"
    /\ BadPrice(oco_args.take_profit) \/ BadPrice(oco_args.stop_loss)
TwapRejected ==
    /\ twap_pc = "exit"
    /\ twap_result \in {"none", "None"}
    /\ MainRejects(twap_args) \/ StrategyRejects(twap_args)
PlaceRejected == pl_pc = "exit" /\ PlaceRejects(pl_args)

\* the command has fetched the reference price and its input violates the
\* price relationship checked against it
OcoRelationRejected ==
    /\ oco_pc \notin {"absent", "start", "price"}
    /\ oco_price # 0
    /\ ~validate_oco_prices(oco_price, validate_price(oco_args.take_profit),
                            validate_price(oco_args.stop_loss), oco_args.side)
StopLimitRelationRejected ==
    /\ pl_pc = "exit"
    /\ pl_args.kind = "stop_limit"
    /\ pl_price # 0
    /\ ~validate_stop_limit_prices(pl_price, validate_price(pl_args.stop_price),
                                   validate_price(pl_args.price), pl_args.side)

\* no Gateway call was made by the command
GridNoCalls == venue = <<>> /\ current_price = 0 /\ grid_orders = <<>>
OcoNoCalls == oco_price = 0 /\ create_calls = 0 /\ mon_pc = "off"
TwapNoCalls == initial_price = 0 /\ twap_creates = 0 /\ twap_log = <<>>

\* an input rejected by the validators fails before any Gateway call
RejectedBeforeAnyCall ==
    /\ GridRejected => GridNoCalls
    /\ OcoRejected => OcoNoCalls
    /\ TwapRejected => TwapNoCalls
    /\ PlaceRejected => (pl_calls = NoCalls /\ pl_result = "None")

\* C27 as stated: an input rejected by validation, a violated price
\* relationship included, is rejected before any Gateway call of any kind
\* and the invocation fails.
C27_RejectedBeforeAnyCall ==
    /\ RejectedBeforeAnyCall
    /\ OcoRelationRejected => (oco_pc = "failed" /\ OcoNoCalls)
    /\ StopLimitRelationRejected => (pl_calls = NoCalls /\ pl_result = "None")

\* C27, amended: an input rejected by the validators of symbol, side,
\* quantity, price and grid or TWAP parameters fails before any Gateway
\* call; an input that violates the price relationship fails after the one
\* query of the reference price, before any order is placed, cancelled or
\* queried.
C27_RejectedBeforeAnyOrder ==
    /\ RejectedBeforeAnyCall
    /\ OcoRelationRejected =>
          (oco_pc = "failed" /\ create_calls = 0 /\ mon_pc = "off")
    /\ StopLimitRelationRejected =>
          /\ pl_calls = [NoCalls EXCEPT !.ticker = 1]
          /\ pl_result = "None"

\* a SELL stop-limit order with its stop above the market price has failed
C27_Witness ==
    /\ StopLimitRelationRejected
    /\ pl_args.side = "SELL"
    /\ pl_args.stop_price = 110 * Unit
    /\ pl_args.price = 90 * Unit
    /\ ~pl_args.dry_run

\* C28: if the first Gateway call of an invocation, the query of the
\* reference price, fails, the invocation ends there in failure and no
\* order is placed: grid, OCO, TWAP and the placers.
C28_FirstCallFailureAborts ==
    /\ exit_reason = "init_failed" =>
          (pc = "failed" /\ venue = <<>> /\ grid_orders = <<>>)
    /\ (oco_pc \notin {"absent", "start", "price"} /\ oco_price = 0) =>
          (oco_pc = "failed" /\ create_calls = 0 /\ mon_pc = "off")
    /\ (twap_pc \notin {"absent", "main", "validate", "initial_price"}
          /\ initial_price = 0) =>
          (twap_pc = "exit" /\ twap_creates = 0 /\ twap_result \in {"none", "None"})
    /\ (pl_calls.ticker > 0 /\ pl_price = 0) =>
          /\ pl_pc = "exit"
          /\ pl_result = "None"
          /\ pl_calls = [NoCalls EXCEPT !.ticker = 1]

\* a limit order whose price query failed
C28_Witness ==
    /\ pl_pc = "exit"
    /\ pl_args.kind = "limit"
    /\ ~pl_args.dry_run
    /\ pl_calls.ticker = 1
    /\ pl_price = 0

\* the relationship a stop-limit order must have to the reference price
StopLimitRelationship(current, stop_price, limit_price, side) ==
    IF side = "BUY"
    THEN FGt(stop_price, current) /\ FGe(limit_price, stop_price)
    ELSE FLt(stop_price, current) /\ FLe(limit_price, stop_price)

\* C29: a stop-limit order is sent to the venue only if, at the fetched
\* reference price, BUY has stop > reference and limit >= stop, or SELL has
\* stop < reference and limit <= stop; otherwise the invocation fails with
\* no futures_create_order call.
C29_StopLimitOnlyWhenRelated ==
    /\ (pl_args.kind = "stop_limit" /\ pl_calls.create > 0) =>
          StopLimitRelationship(pl_price, pl_args.stop_price, pl_args.price,
                                pl_args.side)
    /\ (pl_args.kind = "stop_limit" /\ pl_pc = "exit" /\ pl_price # 0
          /\ ~StopLimitRelationship(pl_price, pl_args.stop_price, pl_args.price,
                                    pl_args.side)) =>
          (pl_result = "None" /\ pl_calls.create = 0)

\* the limit price is more than 50 % away from the reference price
Deviates(current, limit) == Abs(limit - current) * 100 > 50 * current

\* C30: a limit price more than 50 % away from the reference price only
\* produces a warning: once the price is fetched the order is sent to the
\* venue as for any other price.
C30_DeviationNeverBlocks ==
    (/\ pl_args.kind = "limit"
     /\ ~pl_args.dry_run
     /\ pl_pc = "exit"
     /\ pl_price # 0
     /\ Deviates(pl_price, pl_args.price)) => pl_calls.create = 1

(***************************************************************************)
(* Claims about the balance check and the placement call of the placers    *)
(***************************************************************************)
\* required_balance = required_quantity * current_price, as the float the
\* placer computes
MarketCost == FlMul(pl_args.quantity, pl_price, QUnit)

\* the invocation got past check_account_balance
PastBalanceCheck ==
    pl_pc = "attempt" \/ pl_calls.create > 0 \/ pl_result = "DRY_RUN"

C32_SellPassesBalanceCheck ==
    (pl_args.kind = "market" /\ pl_args.side = "SELL" /\ pl_calls.account > 0) =>
        PastBalanceCheck

\* C33: a placer calls futures_create_order at most once; when that call
\* fails the invocation has ended with None, without a second call.
C33_OnePlacementNoRetry ==
    /\ pl_calls.create <= 1
    /\ (pl_calls.create = 1 /\ pl_result # "NEW") =>
          (pl_pc = "exit" /\ pl_result = "None")

\* the futures_create_order call of a stop-limit order failed
C33_Witness ==
    /\ pl_args.kind = "stop_limit"
    /\ pl_calls.create = 1
    /\ pl_pc = "exit"
    /\ pl_result = "None"

(***************************************************************************)
(* Claims about the validators                                             *)
(***************************************************************************)
\* the inputs the validators are to accept: a quantity in
\* [0.001, 1000000], a price in (0, 10000000], BUY or SELL, and an
\* alphanumeric symbol of at least 6 characters that ends in USDT
WellFormed(v) ==
    CASE v.validator = "quantity" ->
            /\ Fl(QUnit, 1000) <= v.value
            /\ (v.value \div QUnit < MaxQuantity
                  \/ (v.value \div QUnit = MaxQuantity /\ v.value % QUnit = 0))
      [] v.validator = "price" ->
            /\ 0 < v.value
            /\ (v.value \div Unit < MaxPrice
                  \/ (v.value \div Unit = MaxPrice /\ v.value % Unit = 0))
      [] v.validator = "side" ->
            normalise(v.value) \in { <<"B", "U", "Y">>, <<"S", "E", "L", "L">> }
      [] v.validator = "symbol" ->
            /\ Len(normalise(v.value)) >= 6
            /\ SubSeq(normalise(v.value), Len(normalise(v.value)) - 3,
                      Len(normalise(v.value))) = <<"U", "S", "D", "T">>
            /\ \A i \in 1 .. Len(normalise(v.value)) :
                   normalise(v.value)[i]
                       \in {"B", "T", "U", "S", "D", "Y", "E", "L", "1"}

\* C34: a validator returns for exactly the well-formed inputs and raises
\* ValueError for all others.
C34_ValidatorsAcceptExactlyWellFormed ==
    val_result # "none" => (val_result = "ok" <=> WellFormed(val_args))

(***************************************************************************)
(* Claims about failures in place_oco_order and monitor_orders             *)
(***************************************************************************)
\* C35: when place_oco_order has failed, no order it submitted is live at
\* the venue.
C35_FailureLeavesNothingLive ==
    oco_pc = "failed" => (tp_order # "NEW" /\ sl_order # "NEW")

\* C36: a status query that fails ends monitor_orders in that step, with
\* no cancel issued and both legs as they were; afterwards the monitor
\* stays ended: it reads no status and issues no cancel.
C36_StatusFailureEndsSupervision ==
    [][ /\ (mon_exit # "error" /\ mon_exit' = "error") =>
              /\ mon_pc \in {"get_tp", "get_sl"}
              /\ mon_pc' = "done"
              /\ oco_cancels' = <<>>
              /\ oco_cancels = <<>>
              /\ tp_order' = tp_order
              /\ sl_order' = sl_order
        /\ mon_exit = "error" =>
              /\ mon_exit' = "error"
              /\ mon_pc' = "done"
              /\ tp_status' = tp_status
              /\ sl_status' = sl_status
              /\ oco_cancels' = oco_cancels
      ]_vars

\* the monitor ended on a failed query; the take-profit order filled
\* later and the stop-loss order is still live
C36_Witness ==
    /\ mon_exit = "error"
    /\ mon_pc = "done"
    /\ tp_order = "FILLED"
    /\ sl_order = "NEW"
    /\ oco_cancels = <<>>

(***************************************************************************)
(* Claims about failures and the tracked orders in a grid cycle            *)
(***************************************************************************)
\* the entries of d other than the one of order e
Without(d, e) == SelectSeq(d, LAMBDA x : x.order_id # e.order_id)

\* C37: a status query that fails does not end the cycle: the poll loop
\* goes on to the next tracked order whatever the query did, it ends only
\* after the last tracked order, every order a query saw FILLED is on the
\* replacement list, and the replacement loop ends only after the last of
\* them, each step removing the filled order's entry and calling
\* place_grid_order once.
C37_PollFailureIsLocal ==
    [][ /\ pc = "poll" => pc' # "display"
        /\ (pc = "poll" /\ pc' = "poll") =>
              /\ idx <= Len(grid_orders)
              /\ idx' = idx + 1
              /\ grid_orders' = grid_orders
              /\ \/ orders_to_replace' = orders_to_replace
                 \/ /\ orders_to_replace' =
                          Append(orders_to_replace, grid_orders[idx])
                    /\ venue[grid_orders[idx].order_id.n].status = "FILLED"
        /\ (pc = "poll" /\ pc' = "replace") =>
              /\ idx > Len(grid_orders)
              /\ idx' = 1
              /\ orders_to_replace' = orders_to_replace
        /\ (pc = "replace" /\ pc' = "display") => idx > Len(orders_to_replace)
        /\ (pc = "replace" /\ pc' = "replace") =>
              /\ idx' = idx + 1
              /\ place_calls' = place_calls + 1
              /\ \A i \in 1 .. Len(grid_orders') :
                     grid_orders'[i].order_id # orders_to_replace[idx].order_id
      ]_vars

\* the query for a filled order failed, and an order tracked after it was
\* still polled, seen FILLED and replaced
C37_Witness ==
    /\ pc = "replace"
    /\ idx = 2
    /\ Len(orders_to_replace) = 1
    /\ place_log.ok
    /\ \E i \in 1 .. Len(grid_orders) :
          /\ venue[grid_orders[i].order_id.n].status = "FILLED"
          /\ grid_orders[i].price < orders_to_replace[1].price

\* C38: when the placement of a replacement fails, the filled order's
\* entry is removed, nothing is installed, the other entries are as they
\* were and the run goes on with the next replacement; and no order is
\* placed for that level later: after initialisation an order reaches the
\* venue only as the replacement of an order that is tracked and FILLED.
C38_FailedReplacementDropsLevel ==
    [][ /\ (pc = "replace" /\ pc' = "replace" /\ ~place_log'.ok) =>
              /\ grid_orders' = Without(grid_orders, orders_to_replace[idx])
              /\ Len(grid_orders') = Len(grid_orders) - 1
              /\ venue' = venue
              /\ running' = running
              /\ idx' = idx + 1
        /\ (pc \notin {"init_buy", "init_sell"} /\ Len(venue') > Len(venue)) =>
              /\ pc = "replace"
              /\ venue[orders_to_replace[idx].order_id.n].status = "FILLED"
              /\ \E i \in 1 .. Len(grid_orders) :
                     grid_orders[i].order_id = orders_to_replace[idx].order_id
      ]_vars

\* C39: a grid run never tracks more orders than it has levels, and once
\* initialize_grid is over the number of tracked orders never grows: a
\* replacement removes one entry and installs at most one.
C39_TrackedOrdersBounded ==
    [][ /\ Len(grid_orders') <= grid_levels'
        /\ pc \notin {"init_buy", "init_sell"} =>
              Len(grid_orders') <= Len(grid_orders)
        /\ (pc = "replace" /\ pc' = "replace") =>
              Len(grid_orders') \in {Len(grid_orders) - 1, Len(grid_orders)}
      ]_vars

\* a fill was replaced and the grid tracks as many orders as it has levels
C39_Witness ==
    /\ pc = "replace"
    /\ idx = 2
    /\ place_log.ok
    /\ ~dry_run
    /\ Len(grid_orders) = grid_levels

(***************************************************************************)
(* Claims about the running totals of a TWAP run                           *)
(***************************************************************************)
\* the slices attempted so far whose futures_create_order call was made
OrdersSent ==
    Cardinality({ k \in 1 .. Len(twap_log) :
                    twap_log[k].outcome \in {"ok", "order_failed"} })

\* quantity of every slice of the plan, 0 before there is a plan
SliceQuantity == IF schedule = <<>> THEN 0 ELSE schedule[1].quantity

\* the counts of C40: the slices that succeeded are among the slices
\* attempted, those among the slices planned, each slice was attempted at
\* most once and sent at most one order
CountsInOrder ==
    /\ successful_orders = Succeeded
    /\ successful_orders <= Len(twap_log)
    /\ Len(twap_log) <= twap_args.orders
    /\ \A k \in 1 .. Len(twap_log) : twap_log[k].slice = k
    /\ twap_creates = OrdersSent

\* C40 as stated: at every point of a run the counts are in order, the
\* executed quantity is the float product successful_orders * slice
\* quantity, and it is at most the total quantity.
C40_TotalsExact ==
    /\ CountsInOrder
    /\ total_executed_quantity = Fl(successful_orders * SliceQuantity, 1)
    /\ total_executed_quantity <= twap_args.quantity

\* C40, amended: the counts are in order, and the executed quantity is
\* successful_orders * slice quantity and at most the total quantity to
\* the rounding of the float additions (within 2^-(Precision - 3)).
C40_TotalsWithinRounding ==
    /\ CountsInOrder
    /\ Abs(total_executed_quantity - successful_orders * SliceQuantity)
          <= (successful_orders * SliceQuantity) \div 2 ^ (Precision - 3)
    /\ total_executed_quantity
          <= twap_args.quantity + twap_args.quantity \div 2 ^ (Precision - 3)

\* seven slices were attempted, six succeeded, and the executed quantity is
\* not the float product of the count and the slice quantity
C40_Witness ==
    /\ Len(twap_log) = 7
    /\ successful_orders = 6
    /\ twap_creates = 7
    /\ total_executed_quantity # Fl(successful_orders * SliceQuantity, 1)

=============================================================================
